---- MODULE Spec2Model ----
(***************************************************************************)
(* Model of the catalog bot of src/main.py: the conversation engine        *)
(* (ConversationHandler states and dispatch), the catalog held in the      *)
(* global CATALOG dict, the group-prefix visibility rules, and the access   *)
(* gate (access codes, authorized and banned users).                       *)
(*                                                                         *)
(* Strings are sequences of one-character strings, so that startswith,     *)
(* replace, slicing and split are computed as Python computes them.        *)
(* CATALOG is an insertion-ordered dict: it is a sequence of               *)
(* [key, products] entries; its 'stats' entry is the variable stats.       *)
(***************************************************************************)
EXTENDS Integers, Sequences, FiniteSets, TLC

VARIABLES
    CATALOG,        \* the catalog dict without its 'stats' entry
    stats,          \* CATALOG['stats']
    groups,         \* admin_features._access_codes["groups"], in dict order
    state,          \* per user: the ConversationHandler state
    user_data,      \* per user: context.user_data (the fixed keys; not the ids
                    \* of the menu and banner messages a handler has sent)
    callback_store, \* per user: the user_data entries callback_<id>, nav_product_<id>
    hash_seed,      \* the per-process seed of Python's str hash
    banned_users,        \* admin_features: the banned user ids
    authorized_users,    \* access_manager: the users who redeemed a code
    access_code_enabled, \* access_manager: the code gate is on
    soldout_prompts, \* per user: the categories whose confirm_soldout_ button
                     \* a message of the chat holds
    nav_buttons,    \* per user: the nav ids whose prev_/next_ buttons a message
                    \* of the chat holds
    out,            \* what the last handled event rendered
    steps           \* number of events still to be handled in this run

\* the access store, which only the access handlers and commands touch
access == <<banned_users, authorized_users, access_code_enabled>>

vars == <<CATALOG, stats, groups, state, user_data, callback_store, hash_seed,
          banned_users, authorized_users, access_code_enabled, soldout_prompts,
          nav_buttons, out, steps>>

----------------------------------------------------------------------------
(* Bounds of the model *)

MaxSteps == 7
MaxCategories == 3
MaxProducts == 2
MaxMedia == 2
MaxEditSteps == 5
MaxCategorySteps == 4
MaxViewSteps == 4
MaxViews == 4
MaxAccessSteps == 6
MaxCommandSteps == 7
MaxCreateSteps == 5
MaxDeleteSteps == 5
MaxConflictSteps == 4
MaxStatsSteps == 6
MaxSoldOutSteps == 4
MaxMediaSteps == 12
MaxShapeSteps == 6
MaxRaceSteps == 6
MaxStaleSteps == 9
MaxOrderSteps == 7
MaxCancelSteps == 6
MaxListingSteps == 3
MaxNavSteps == 8

----------------------------------------------------------------------------
(* Strings *)

None == <<"#None">>
US == <<"_">>

SOLD_OUT_NAME == <<"S", "O">>

StartsWith(s, p) == Len(s) >= Len(p) /\ SubSeq(s, 1, Len(p)) = p

\* s[:n]
Slice(s, n) == IF Len(s) <= n THEN s ELSE SubSeq(s, 1, n)

\* s[n:]
Drop(s, n) == IF Len(s) <= n THEN <<>> ELSE SubSeq(s, n + 1, Len(s))

\* s.replace(old, ""): every non-overlapping occurrence, left to right
RECURSIVE Replace(_, _)
Replace(s, old) ==
    IF s = <<>> THEN <<>>
    ELSE IF StartsWith(s, old) THEN Replace(Drop(s, Len(old)), old)
    ELSE <<Head(s)>> \o Replace(Tail(s), old)

\* s.replace(old, "", 1)
RECURSIVE ReplaceFirst(_, _)
ReplaceFirst(s, old) ==
    IF s = <<>> THEN <<>>
    ELSE IF StartsWith(s, old) THEN Drop(s, Len(old))
    ELSE <<Head(s)>> \o ReplaceFirst(Tail(s), old)

\* s.split("_"): the list of the pieces between underscores
RECURSIVE SplitUS(_, _)
SplitUS(s, cur) ==
    IF s = <<>> THEN <<cur>>
    ELSE IF Head(s) = "_" THEN <<cur>> \o SplitUS(Tail(s), <<>>)
    ELSE SplitUS(Tail(s), Append(cur, Head(s)))

Split(s) == SplitUS(s, <<>>)

\* "_".join(parts)
RECURSIVE JoinUS(_)
JoinUS(parts) ==
    IF parts = <<>> THEN <<>>
    ELSE IF Len(parts) = 1 THEN parts[1]
    ELSE parts[1] \o US \o JoinUS(Tail(parts))

\* f"{group_name}_"
Prefix(g) == g \o US

----------------------------------------------------------------------------
(* Users, groups and inputs *)

Users == {1, 2, 3}
ADMIN_IDS == {1, 2}

GroupV == <<"V">>
GroupW == <<"W">>

\* the texts a user may type
Texts == { <<"a">>, <<"b">>, <<"V", "_", "a">> }

\* category keys a button press may carry
ButtonKeys == { <<"a">>, <<"b">>, <<"V", "_", "a">>, <<"V", "_", "b">> }

\* the groups that contain the user, in dict order
UserGroups(gs, u) ==
    LET mine == SelectSeq(gs, LAMBDA g : u \in g.members)
    IN [i \in DOMAIN mine |-> mine[i].name]

\* any(key.startswith(f"{g}_") for g in groups)
HasGroupPrefix(gs, key) == \E i \in DOMAIN gs : StartsWith(key, Prefix(gs[i].name))

\* the first group, in dict order, whose prefix the key carries (0 when none)
OwnerIndex(gs, key) ==
    IF HasGroupPrefix(gs, key)
    THEN CHOOSE i \in DOMAIN gs :
            /\ StartsWith(key, Prefix(gs[i].name))
            /\ \A j \in 1..(i - 1) : ~StartsWith(key, Prefix(gs[j].name))
    ELSE 0

----------------------------------------------------------------------------
(* The catalog dict *)

Keys(cat) == {cat[i].key : i \in DOMAIN cat}

Has(cat, k) == k \in Keys(cat)

IndexOf(cat, k) == CHOOSE i \in DOMAIN cat : cat[i].key = k

\* CATALOG[k]
Products(cat, k) == cat[IndexOf(cat, k)].products

\* CATALOG.get(k, [])
ProductsOrEmpty(cat, k) == IF Has(cat, k) THEN Products(cat, k) ELSE <<>>

\* CATALOG[k] = v
Put(cat, k, v) ==
    IF Has(cat, k) THEN [cat EXCEPT ![IndexOf(cat, k)].products = v]
    ELSE Append(cat, [key |-> k, products |-> v])

\* del CATALOG[k]
Del(cat, k) == SelectSeq(cat, LAMBDA e : e.key # k)

ProductNames(ps) == {ps[i].name : i \in DOMAIN ps}

SoldOutProduct ==
    [name |-> SOLD_OUT_NAME, price |-> <<"N">>, description |-> <<"R">>, media |-> <<>>]

IsSoldOutList(ps) == Len(ps) = 1 /\ ps[1].name = SOLD_OUT_NAME

is_category_sold_out(cat, k) == Has(cat, k) /\ IsSoldOutList(Products(cat, k))

----------------------------------------------------------------------------
(* user_data *)

\* user_data.get(k)
Get(ud, k) == IF k \in DOMAIN ud THEN ud[k] ELSE None

\* user_data[k] = v
Set(ud, k, v) == [x \in (DOMAIN ud) \cup {k} |-> IF x = k THEN v ELSE ud[x]]

Empty == [x \in {} |-> None]

----------------------------------------------------------------------------
(* Conversation states *)

END == "END"
CHOOSING == "CHOOSING"
WAITING_CATEGORY_NAME == "WAITING_CATEGORY_NAME"
WAITING_PRODUCT_NAME == "WAITING_PRODUCT_NAME"
WAITING_PRODUCT_PRICE == "WAITING_PRODUCT_PRICE"
WAITING_PRODUCT_DESCRIPTION == "WAITING_PRODUCT_DESCRIPTION"
WAITING_PRODUCT_MEDIA == "WAITING_PRODUCT_MEDIA"
SELECTING_CATEGORY == "SELECTING_CATEGORY"
SELECTING_CATEGORY_TO_DELETE == "SELECTING_CATEGORY_TO_DELETE"
SELECTING_PRODUCT_TO_DELETE == "SELECTING_PRODUCT_TO_DELETE"
SELECTING_PRODUCT_TO_EDIT == "SELECTING_PRODUCT_TO_EDIT"
EDITING_PRODUCT_FIELD == "EDITING_PRODUCT_FIELD"
WAITING_NEW_VALUE == "WAITING_NEW_VALUE"
EDITING_CATEGORY == "EDITING_CATEGORY"
WAITING_NEW_CATEGORY_NAME == "WAITING_NEW_CATEGORY_NAME"
WAITING_FOR_ACCESS_CODE == "WAITING_FOR_ACCESS_CODE"

\* the states whose handler list ends with CallbackQueryHandler(handle_normal_buttons)
ButtonStates ==
    { CHOOSING, WAITING_CATEGORY_NAME, WAITING_PRODUCT_NAME, WAITING_PRODUCT_PRICE,
      WAITING_PRODUCT_DESCRIPTION, WAITING_PRODUCT_MEDIA, SELECTING_CATEGORY,
      SELECTING_CATEGORY_TO_DELETE, SELECTING_PRODUCT_TO_DELETE,
      SELECTING_PRODUCT_TO_EDIT, EDITING_PRODUCT_FIELD, WAITING_NEW_VALUE,
      WAITING_NEW_CATEGORY_NAME, EDITING_CATEGORY }

\* a button press of user u is dispatched to handle_normal_buttons
AcceptsButton(u) == state[u] \in ButtonStates

\* the states with MessageHandler(filters.TEXT & ~filters.COMMAND, ...)
TextStates ==
    { WAITING_CATEGORY_NAME, WAITING_PRODUCT_NAME, WAITING_PRODUCT_PRICE,
      WAITING_PRODUCT_DESCRIPTION, WAITING_NEW_VALUE, WAITING_NEW_CATEGORY_NAME,
      WAITING_FOR_ACCESS_CODE }

\* the states with MessageHandler(filters.PHOTO | filters.VIDEO, ...)
MediaStates == { WAITING_PRODUCT_MEDIA }

MessageShapes == { "text", "media" }

\* a handler of the state takes a message of the shape
AcceptsMessage(st, shape) ==
    IF shape = "text" THEN st \in TextStates ELSE st \in MediaStates

\* the states of the conversation, END standing for no conversation
ConversationStates == ButtonStates \cup {WAITING_FOR_ACCESS_CODE, END}

\* commands taken by the entry points alone
AcceptsCommand_EntryOnly(u) == state[u] = END

\* no handler of a state takes a command (filters.TEXT & ~filters.COMMAND, photo
\* and video filters): /start and /admin reach the entry points when there is no
\* conversation and the fallbacks in every state
AcceptsCommand(u) == state[u] \in ConversationStates

----------------------------------------------------------------------------
(* Initial states *)

Product(n) == [name |-> n, price |-> <<"2">>, description |-> <<"f">>, media |-> <<>>]

InitCatalogs ==
    { << [key |-> <<"a">>, products |-> <<Product(<<"a">>)>>],
         [key |-> <<"V", "_", "a">>, products |-> <<Product(<<"b">>)>>] >>,
      << [key |-> <<"a">>, products |-> <<SoldOutProduct>>] >> }

InitGroups ==
    { << [name |-> GroupV, members |-> {1}], [name |-> GroupW, members |-> {}] >> }

InitStats == [total_views |-> 0, category_views |-> <<>>, product_views |-> <<>>]

HashSeeds == {0, 1}

\* every user has run /start and is at the menu (CHOOSING), nothing in progress;
\* the code gate is off and nobody is banned
InitWith(catalogs, memberships, seeds, budget) ==
    /\ CATALOG \in catalogs
    /\ stats = InitStats
    /\ groups \in memberships
    /\ state = [u \in Users |-> CHOOSING]
    /\ user_data = [u \in Users |-> Empty]
    /\ callback_store = [u \in Users |-> Empty]
    /\ hash_seed \in seeds
    /\ banned_users = {}
    /\ authorized_users = {}
    /\ access_code_enabled = FALSE
    /\ soldout_prompts = [u \in Users |-> {}]
    /\ nav_buttons = [u \in Users |-> {}]
    /\ out = [kind |-> "none"]
    /\ steps = budget

\* one more event is handled
Step == steps > 0 /\ steps' = steps - 1

Goto(u, s) == state' = [state EXCEPT ![u] = s]

----------------------------------------------------------------------------
(* show_admin_menu and the buttons that only lead to it *)

\* query.data == "admin"
admin_button(u) ==
    /\ Step
    /\ AcceptsButton(u) \/ state[u] = END
    /\ Goto(u, CHOOSING)
    /\ out' = [kind |-> IF u \in ADMIN_IDS THEN "admin_menu" ELSE "not_admin", user |-> u]
    /\ UNCHANGED <<CATALOG, stats, groups, user_data, callback_store, hash_seed, access, soldout_prompts, nav_buttons>>

\* query.data in ["cancel_add_category", "cancel_add_product", ...] and "cancel_edit"
cancel_button(u) ==
    /\ Step
    /\ AcceptsButton(u)
    /\ Goto(u, CHOOSING)
    /\ out' = [kind |-> "admin_menu", user |-> u, via |-> "cancel"]
    /\ UNCHANGED <<CATALOG, stats, groups, user_data, callback_store, hash_seed, access, soldout_prompts, nav_buttons>>

\* a message of a shape no handler of the state takes: neither the state's
\* list, nor the fallbacks, nor the application has a handler for it, and
\* nothing is sent
unmatched_message(u, shape) ==
    /\ Step
    /\ ~AcceptsMessage(state[u], shape)
    /\ out' = [kind |-> "unmatched", user |-> u, shape |-> shape, rendered |-> "none"]
    /\ UNCHANGED <<CATALOG, stats, groups, state, user_data, callback_store, hash_seed, access,
                   soldout_prompts, nav_buttons>>

\* a press whose data no branch of handle_normal_buttons tests: the query is
\* answered without text and the function ends without return
unknown_button(u) ==
    /\ Step
    /\ AcceptsButton(u)
    /\ out' = [kind |-> "unmatched", user |-> u, shape |-> "button", rendered |-> "none"]
    /\ UNCHANGED <<CATALOG, stats, groups, state, user_data, callback_store, hash_seed, access,
                   soldout_prompts, nav_buttons>>

----------------------------------------------------------------------------
(* Creating a category *)

\* query.data == "add_category"
add_category(u) ==
    /\ Step
    /\ AcceptsButton(u)
    /\ Goto(u, WAITING_CATEGORY_NAME)
    /\ out' = [kind |-> "ask_category_name", user |-> u]
    /\ UNCHANGED <<CATALOG, stats, groups, user_data, callback_store, hash_seed, access, soldout_prompts, nav_buttons>>

handle_category_name_ConflictToMenu(u, text) ==
    /\ Step
    /\ state[u] = WAITING_CATEGORY_NAME
    /\ LET user_groups == UserGroups(groups, u)
           category_name == IF Len(user_groups) = 1 THEN Prefix(user_groups[1]) \o text
                            ELSE text
       IN  IF Len(user_groups) > 1
           THEN /\ Goto(u, CHOOSING)
                /\ out' = [kind |-> "select_group", user |-> u, name |-> text,
                           choices |-> user_groups]
                /\ UNCHANGED CATALOG
           ELSE IF Has(CATALOG, category_name)
           THEN /\ Goto(u, CHOOSING)
                /\ out' = [kind |-> "category_exists", user |-> u, key |-> category_name,
                           name |-> text]
                /\ UNCHANGED CATALOG
           ELSE /\ Len(CATALOG) < MaxCategories
                /\ CATALOG' = Put(CATALOG, category_name, <<>>)
                /\ Goto(u, CHOOSING)
                /\ out' = [kind |-> "category_created", user |-> u, key |-> category_name,
                           name |-> text]
    /\ UNCHANGED <<stats, groups, user_data, callback_store, hash_seed, access, soldout_prompts, nav_buttons>>

handle_category_name(u, text) ==
    /\ Step
    /\ state[u] = WAITING_CATEGORY_NAME
    /\ LET user_groups == UserGroups(groups, u)
           category_name == IF Len(user_groups) = 1 THEN Prefix(user_groups[1]) \o text
                            ELSE text
       IN  IF Len(user_groups) > 1
           THEN /\ Goto(u, CHOOSING)
                /\ out' = [kind |-> "select_group", user |-> u, name |-> text,
                           choices |-> user_groups]
                /\ UNCHANGED CATALOG
           ELSE IF Has(CATALOG, category_name)
           THEN /\ Goto(u, WAITING_CATEGORY_NAME)
                /\ out' = [kind |-> "category_exists", user |-> u, key |-> category_name,
                           name |-> text]
                /\ UNCHANGED CATALOG
           ELSE /\ Len(CATALOG) < MaxCategories
                /\ CATALOG' = Put(CATALOG, category_name, <<>>)
                /\ Goto(u, CHOOSING)
                /\ out' = [kind |-> "category_created", user |-> u, key |-> category_name,
                           name |-> text]
    /\ UNCHANGED <<stats, groups, user_data, callback_store, hash_seed, access, soldout_prompts, nav_buttons>>

\* f"select_group_for_category_{group_name}_{category_name}"
SelectGroupData(g, name) ==
    <<"s", "e", "l", "e", "c", "t", "_", "g", "r", "o", "u", "p", "_", "f", "o", "r", "_", "c", "a", "t", "e", "g", "o", "r", "y", "_">>
        \o g \o US \o name

\* the handlers of CHOOSING whose pattern begins with select_group, in the
\* order of the list
SelectGroupHandlers ==
    << [pattern |-> <<"s", "e", "l", "e", "c", "t", "_", "g", "r", "o", "u", "p", "_">>,
        handler |-> "select_group_for_user"],
       [pattern |-> <<"s", "e", "l", "e", "c", "t", "_", "g", "r", "o", "u", "p", "_", "f", "o", "r", "_", "c", "a", "t", "e", "g", "o", "r", "y", "_">>,
        handler |-> "select_group_for_category"] >>

\* the first handler of the list whose pattern matches the data
Dispatch(handlers, data) ==
    LET i == CHOOSE i \in DOMAIN handlers :
                 /\ StartsWith(data, handlers[i].pattern)
                 /\ \A j \in 1..(i - 1) : ~StartsWith(data, handlers[j].pattern)
    IN  handlers[i].handler

\* admin_features.select_group_for_category: the category is created in the
\* selected group
SelectGroupForCategory(cat, g, name) ==
    IF Has(cat, Prefix(g) \o name) THEN cat ELSE Put(cat, Prefix(g) \o name, <<>>)

\* a press of one of the buttons select_group_for_category_<group>_<name> in
\* CHOOSING; admin_features.select_group_for_user manages the members of the
\* groups and leaves the catalog alone
select_group_press(u, g, name) ==
    /\ Step
    /\ state[u] = CHOOSING
    /\ LET handler == Dispatch(SelectGroupHandlers, SelectGroupData(g, name))
       IN  /\ CATALOG' = IF handler = "select_group_for_category"
                         THEN SelectGroupForCategory(CATALOG, g, name)
                         ELSE CATALOG
           /\ out' = [kind |-> "group_selected", user |-> u, group |-> g,
                      name |-> name, handler |-> handler]
    /\ Len(CATALOG') <= MaxCategories
    /\ UNCHANGED <<stats, groups, state, user_data, callback_store, hash_seed, access, soldout_prompts, nav_buttons>>

----------------------------------------------------------------------------
(* The add-product flow *)

\* query.data.startswith("select_category_")
select_category(u, category) ==
    /\ Step
    /\ AcceptsButton(u)
    /\ user_data' = [user_data EXCEPT ![u] = Set(@, "temp_product_category", category)]
    /\ Goto(u, WAITING_PRODUCT_NAME)
    /\ out' = [kind |-> "ask_product_name", user |-> u]
    /\ UNCHANGED <<CATALOG, stats, groups, callback_store, hash_seed, access, soldout_prompts, nav_buttons>>

handle_product_name(u, text) ==
    /\ Step
    /\ state[u] = WAITING_PRODUCT_NAME
    /\ LET category == Get(user_data[u], "temp_product_category")
           user_groups == UserGroups(groups, u)
           product_name == IF ~HasGroupPrefix(groups, category) /\ user_groups # <<>>
                           THEN Prefix(user_groups[1]) \o text
                           ELSE text
           cleaned == IF is_category_sold_out(CATALOG, category)
                      THEN Put(CATALOG, category, <<>>)
                      ELSE CATALOG
       IN  /\ CATALOG' = cleaned
           /\ IF product_name \in ProductNames(ProductsOrEmpty(cleaned, category))
              THEN /\ Goto(u, WAITING_PRODUCT_NAME)
                   /\ out' = [kind |-> "product_exists", user |-> u]
                   /\ UNCHANGED user_data
              ELSE /\ user_data' = [user_data EXCEPT
                                        ![u] = Set(@, "temp_product_name", product_name)]
                   /\ Goto(u, WAITING_PRODUCT_PRICE)
                   /\ out' = [kind |-> "ask_product_price", user |-> u,
                              key |-> category, typed |-> text]
    /\ UNCHANGED <<stats, groups, callback_store, hash_seed, access, soldout_prompts, nav_buttons>>

handle_product_price(u, text) ==
    /\ Step
    /\ state[u] = WAITING_PRODUCT_PRICE
    /\ user_data' = [user_data EXCEPT ![u] = Set(@, "temp_product_price", text)]
    /\ Goto(u, WAITING_PRODUCT_DESCRIPTION)
    /\ out' = [kind |-> "ask_product_description", user |-> u]
    /\ UNCHANGED <<CATALOG, stats, groups, callback_store, hash_seed, access, soldout_prompts, nav_buttons>>

handle_product_description(u, text) ==
    /\ Step
    /\ state[u] = WAITING_PRODUCT_DESCRIPTION
    /\ user_data' = [user_data EXCEPT
                        ![u] = Set(Set(@, "temp_product_description", text),
                                   "temp_product_media", <<>>)]
    /\ Goto(u, WAITING_PRODUCT_MEDIA)
    /\ out' = [kind |-> "ask_product_media", user |-> u]
    /\ UNCHANGED <<CATALOG, stats, groups, callback_store, hash_seed, access, soldout_prompts, nav_buttons>>

MediaInputs == { [media_id |-> "m1", media_type |-> "photo"] }

handle_product_media(u, m) ==
    /\ Step
    /\ state[u] = WAITING_PRODUCT_MEDIA
    /\ LET ud == user_data[u]
           media == IF "temp_product_media" \in DOMAIN ud THEN ud["temp_product_media"]
                    ELSE <<>>
           count == (IF "media_count" \in DOMAIN ud THEN ud["media_count"] ELSE 0) + 1
           new_media == [media_id |-> m.media_id, media_type |-> m.media_type,
                         order_index |-> count]
       IN  /\ count <= MaxMedia
           /\ user_data' = [user_data EXCEPT
                               ![u] = Set(Set(ud, "media_count", count),
                                          "temp_product_media", Append(media, new_media))]
    /\ Goto(u, WAITING_PRODUCT_MEDIA)
    /\ out' = [kind |-> "media_added", user |-> u]
    /\ UNCHANGED <<CATALOG, stats, groups, callback_store, hash_seed, access, soldout_prompts, nav_buttons>>

\* the list with the media of the first product named name replaced
RECURSIVE SetMedia(_, _, _)
SetMedia(ps, name, media) ==
    IF ps = <<>> THEN <<>>
    ELSE IF Head(ps).name = name
         THEN <<[x \in (DOMAIN Head(ps)) \cup {"media"} |->
                    IF x = "media" THEN media ELSE Head(ps)[x]]>> \o Tail(ps)
         ELSE <<Head(ps)>> \o SetMedia(Tail(ps), name, media)

\* the catalog after finish_product_media has stored the new product
FinishCommit(cat, category, new_product) ==
    LET cleaned == IF is_category_sold_out(cat, category) THEN Put(cat, category, <<>>)
                   ELSE cat
    IN Put(cleaned, category, Append(ProductsOrEmpty(cleaned, category), new_product))

\* CallbackQueryHandler(finish_product_media, pattern="^finish_media$"), a handler of
\* WAITING_PRODUCT_MEDIA only. The keyboard built after the commit reads the
\* undefined name status_text: the handler raises and the state is not updated.
finish_product_media(u) ==
    /\ Step
    /\ state[u] = WAITING_PRODUCT_MEDIA
    /\ LET ud == user_data[u]
           category == Get(ud, "temp_product_category")
           media == IF "temp_product_media" \in DOMAIN ud THEN ud["temp_product_media"]
                    ELSE <<>>
       IN  IF category = None
           THEN /\ Goto(u, CHOOSING)
                /\ out' = [kind |-> "admin_menu", user |-> u]
                /\ UNCHANGED <<CATALOG, user_data, callback_store>>
           ELSE /\ IF Get(ud, "editing_category") # None
                   THEN LET product_name == Get(ud, "editing_product")
                        IN  IF product_name # None /\ Has(CATALOG, category)
                            THEN CATALOG' = Put(CATALOG, category,
                                     SetMedia(Products(CATALOG, category), product_name, media))
                            ELSE UNCHANGED CATALOG
                   ELSE /\ Len(ProductsOrEmpty(CATALOG, category)) < MaxProducts
                        /\ Has(CATALOG, category) \/ Len(CATALOG) < MaxCategories
                        /\ CATALOG' = FinishCommit(CATALOG, category,
                               [name |-> Get(ud, "temp_product_name"),
                                price |-> Get(ud, "temp_product_price"),
                                description |-> Get(ud, "temp_product_description"),
                                media |-> media])
                /\ user_data' = [user_data EXCEPT ![u] = Empty]
                /\ callback_store' = [callback_store EXCEPT ![u] = Empty]
                /\ UNCHANGED state
                /\ out' = [kind |-> IF Get(ud, "editing_category") # None
                                     THEN "media_replaced" ELSE "product_committed",
                           user |-> u, key |-> category, via |-> "finish_media",
                           name |-> Get(ud, "temp_product_name"), media |-> media,
                           raised |-> TRUE]
    /\ UNCHANGED <<stats, groups, hash_seed, access, soldout_prompts, nav_buttons>>

\* the catalog after the skip_media branch has stored the new product
SkipCommit(cat, category, new_product) ==
    Put(cat, category, Append(ProductsOrEmpty(cat, category), new_product))

\* skip_media without context.user_data.clear()
skip_media_KeepUserData(u) ==
    /\ Step
    /\ AcceptsButton(u)
    /\ LET ud == user_data[u]
           category == Get(ud, "temp_product_category")
       IN  IF category # None
           THEN /\ Len(ProductsOrEmpty(CATALOG, category)) < MaxProducts
                /\ Has(CATALOG, category) \/ Len(CATALOG) < MaxCategories
                /\ CATALOG' = SkipCommit(CATALOG, category,
                       [name |-> Get(ud, "temp_product_name"),
                        price |-> Get(ud, "temp_product_price"),
                        description |-> Get(ud, "temp_product_description")])
                /\ Goto(u, CHOOSING)
                /\ out' = [kind |-> "product_committed", user |-> u, key |-> category,
                           via |-> "skip_media", name |-> Get(ud, "temp_product_name"),
                           raised |-> FALSE]
                /\ UNCHANGED <<user_data, callback_store>>
           ELSE /\ out' = [kind |-> "nothing", user |-> u]
                /\ UNCHANGED <<CATALOG, user_data, callback_store, state>>
    /\ UNCHANGED <<stats, groups, hash_seed, access, soldout_prompts, nav_buttons>>

\* query.data == "skip_media"
skip_media(u) ==
    /\ Step
    /\ AcceptsButton(u)
    /\ LET ud == user_data[u]
           category == Get(ud, "temp_product_category")
       IN  IF category # None
           THEN /\ Len(ProductsOrEmpty(CATALOG, category)) < MaxProducts
                /\ Has(CATALOG, category) \/ Len(CATALOG) < MaxCategories
                /\ CATALOG' = SkipCommit(CATALOG, category,
                       [name |-> Get(ud, "temp_product_name"),
                        price |-> Get(ud, "temp_product_price"),
                        description |-> Get(ud, "temp_product_description")])
                /\ user_data' = [user_data EXCEPT ![u] = Empty]
                /\ callback_store' = [callback_store EXCEPT ![u] = Empty]
                /\ Goto(u, CHOOSING)
                /\ out' = [kind |-> "product_committed", user |-> u, key |-> category,
                           via |-> "skip_media", name |-> Get(ud, "temp_product_name"),
                           raised |-> FALSE]
           ELSE /\ out' = [kind |-> "nothing", user |-> u]
                /\ UNCHANGED <<CATALOG, user_data, callback_store, state>>
    /\ UNCHANGED <<stats, groups, hash_seed, access, soldout_prompts, nav_buttons>>

----------------------------------------------------------------------------
(* Sold out *)

\* query.data.startswith("add_soldout_"): the prompt with the buttons
\* confirm_soldout_<category> and edit_cat_<category>
add_soldout(u, category) ==
    /\ Step
    /\ AcceptsButton(u)
    /\ IF u \in ADMIN_IDS
       THEN /\ soldout_prompts' = [soldout_prompts EXCEPT ![u] = @ \cup {category}]
            /\ Goto(u, EDITING_CATEGORY)
            /\ out' = [kind |-> "soldout_prompt", user |-> u, key |-> category]
       ELSE /\ out' = [kind |-> "nothing", user |-> u]
            /\ UNCHANGED <<state, soldout_prompts>>
    /\ UNCHANGED <<CATALOG, stats, groups, user_data, callback_store, hash_seed, access,
                   nav_buttons>>

\* query.data.startswith("edit_cat_"), the menu of one category: the button
\* "no" of the sold-out prompt
edit_cat(u, category) ==
    /\ Step
    /\ AcceptsButton(u)
    /\ IF u \in ADMIN_IDS
       THEN /\ Goto(u, CHOOSING)
            /\ out' = [kind |-> "category_menu", user |-> u, key |-> category]
       ELSE /\ out' = [kind |-> "nothing", user |-> u]
            /\ UNCHANGED state
    /\ UNCHANGED <<CATALOG, stats, groups, user_data, callback_store, hash_seed, access,
                   soldout_prompts, nav_buttons>>

\* the catalog after confirm_soldout_ has appended the sentinel
SetSoldOut_Append(cat, category) ==
    Put(cat, category, ProductsOrEmpty(cat, category) \o <<SoldOutProduct>>)

\* the catalog after confirm_soldout_
SetSoldOut(cat, category) == Put(cat, category, <<SoldOutProduct>>)

\* query.data.startswith("confirm_soldout_")
confirm_soldout(u, category) ==
    /\ Step
    /\ AcceptsButton(u)
    /\ IF u \in ADMIN_IDS
       THEN /\ Has(CATALOG, category) \/ Len(CATALOG) < MaxCategories
            /\ CATALOG' = SetSoldOut(CATALOG, category)
            /\ Goto(u, EDITING_CATEGORY)
            /\ out' = [kind |-> "soldout_set", user |-> u, key |-> category]
       ELSE /\ out' = [kind |-> "nothing", user |-> u]
            /\ UNCHANGED <<CATALOG, state>>
    /\ UNCHANGED <<stats, groups, user_data, callback_store, hash_seed, access, soldout_prompts, nav_buttons>>

----------------------------------------------------------------------------
(* Deleting *)

\* can_delete that the membership test never clears
CanDelete_Always(gs, u, category) == TRUE

\* can_delete of the confirm_delete_category_ branch
CanDelete(gs, u, category) ==
    LET i == OwnerIndex(gs, category)
    IN i = 0 \/ u \in gs[i].members

\* query.data.startswith("confirm_delete_category_")
confirm_delete_category(u, category) ==
    /\ Step
    /\ AcceptsButton(u)
    /\ IF Has(CATALOG, category)
       THEN IF CanDelete(groups, u, category)
            THEN /\ CATALOG' = Del(CATALOG, category)
                 /\ out' = [kind |-> "category_deleted", user |-> u, key |-> category]
            ELSE /\ out' = [kind |-> "delete_forbidden", user |-> u, key |-> category]
                 /\ UNCHANGED CATALOG
       ELSE /\ out' = [kind |-> "category_gone", user |-> u, key |-> category]
            /\ UNCHANGED CATALOG
    /\ Goto(u, CHOOSING)
    /\ UNCHANGED <<stats, groups, user_data, callback_store, hash_seed, access, soldout_prompts, nav_buttons>>

\* the payload a delete listing puts on the button of product p of category c
DeletePayload(c, p) == Slice(c, 10) \o US \o Slice(p, 20)

\* next((x for x in xs if x.startswith(short) or short.startswith(x)), None)
FirstMatch(xs, short) ==
    LET hits == SelectSeq(xs, LAMBDA x : StartsWith(x, short) \/ StartsWith(short, x))
    IN IF hits = <<>> THEN None ELSE hits[1]

\* query.data == "delete_product": whether the picker lists category for u
DeleteProductLists(gs, u, cat, category) ==
    LET user_groups == UserGroups(gs, u)
    IN  IF user_groups # <<>>
        THEN \/ \E i \in DOMAIN user_groups : StartsWith(category, Prefix(user_groups[i]))
             \/ \E q \in ProductNames(Products(cat, category)) :
                    \E i \in DOMAIN user_groups : StartsWith(q, Prefix(user_groups[i]))
        ELSE ~HasGroupPrefix(gs, category)

\* query.data == "delete_product"
delete_product(u) ==
    /\ Step
    /\ AcceptsButton(u)
    /\ Goto(u, SELECTING_CATEGORY_TO_DELETE)
    /\ out' = [kind |-> "delete_product_picker", user |-> u,
               buttons |-> SelectSeq([i \in DOMAIN CATALOG |-> CATALOG[i].key],
                               LAMBDA c : DeleteProductLists(groups, u, CATALOG, c))]
    /\ UNCHANGED <<CATALOG, stats, groups, user_data, callback_store, hash_seed, access, soldout_prompts, nav_buttons>>

\* the products the delete listing of a category shows to u: the products of
\* u's groups, or the public products when u is in no group
DeleteProductButtons(gs, u, ps) ==
    LET user_groups == UserGroups(gs, u)
        shown == SelectSeq(ps, LAMBDA q :
                     IF HasGroupPrefix(gs, q.name)
                     THEN \E i \in DOMAIN user_groups :
                              StartsWith(q.name, Prefix(user_groups[i]))
                     ELSE user_groups = <<>>)
    IN  [i \in DOMAIN shown |-> shown[i].name]

\* query.data.startswith("delete_product_category_")
delete_product_category(u, category) ==
    /\ Step
    /\ AcceptsButton(u)
    /\ Goto(u, SELECTING_PRODUCT_TO_DELETE)
    /\ out' = [kind |-> "delete_product_listing", user |-> u, key |-> category,
               buttons |-> DeleteProductButtons(groups, u,
                               ProductsOrEmpty(CATALOG, category))]
    /\ UNCHANGED <<CATALOG, stats, groups, user_data, callback_store, hash_seed, access, soldout_prompts, nav_buttons>>

\* the category and the product the confirm_delete_product_ branch finds for
\* payload (None when it finds none)
ConfirmDelete(cat, payload) ==
    LET parts == Split(payload)
        short_category == parts[1]
        short_product == JoinUS(Tail(parts))
        category == FirstMatch([i \in DOMAIN cat |-> cat[i].key], short_category)
    IN  IF category = None THEN [category |-> None, product_name |-> None]
        ELSE LET ps == Products(cat, category)
                 product_name == FirstMatch([i \in DOMAIN ps |-> ps[i].name], short_product)
             IN  [category |-> category, product_name |-> product_name]

\* query.data.startswith("confirm_delete_product_"): the press of the button of
\* product p in the delete listing of category c
confirm_delete_product(u, c, p) ==
    /\ Step
    /\ AcceptsButton(u)
    /\ LET found == ConfirmDelete(CATALOG, DeletePayload(c, p))
       IN  IF found.product_name = None
           THEN /\ out' = [kind |-> "nothing", user |-> u, selected_key |-> c,
                           selected |-> p]
                /\ UNCHANGED state
           ELSE /\ out' = [kind |-> "confirm_delete_product", user |-> u,
                           selected_key |-> c, selected |-> p,
                           key |-> found.category, product |-> found.product_name]
                /\ Goto(u, SELECTING_PRODUCT_TO_DELETE)
    /\ UNCHANGED <<CATALOG, stats, groups, user_data, callback_store, hash_seed, access, soldout_prompts, nav_buttons>>

\* the catalog after the really_delete_product_ branch has handled payload
ReallyDelete(cat, payload) ==
    LET parts == Split(payload)
        short_category == parts[1]
        short_product == JoinUS(Tail(parts))
        category == FirstMatch([i \in DOMAIN cat |-> cat[i].key], short_category)
    IN  IF category = None THEN cat
        ELSE LET ps == Products(cat, category)
                 product_name == FirstMatch([i \in DOMAIN ps |-> ps[i].name], short_product)
             IN  IF product_name = None THEN cat
                 ELSE Put(cat, category, SelectSeq(ps, LAMBDA q : q.name # product_name))

\* query.data.startswith("really_delete_product_")
really_delete_product(u, c, p) ==
    /\ Step
    /\ AcceptsButton(u)
    /\ CATALOG' = ReallyDelete(CATALOG, DeletePayload(c, p))
    /\ Goto(u, CHOOSING)
    /\ out' = [kind |-> "really_delete", user |-> u, key |-> c, product |-> p]
    /\ UNCHANGED <<stats, groups, user_data, callback_store, hash_seed, access, soldout_prompts, nav_buttons>>

----------------------------------------------------------------------------
(* Renaming a category *)

\* query.data == "edit_category": whether the listing shows category to u
EditCategoryLists(gs, u, category) ==
    LET user_groups == UserGroups(gs, u)
    IN  IF user_groups # <<>>
        THEN \E i \in DOMAIN user_groups : StartsWith(category, Prefix(user_groups[i]))
        ELSE ~HasGroupPrefix(gs, category)

\* query.data.startswith("edit_cat_name_"), reached through the "edit_cat_" branch
edit_cat_name(u, category) ==
    /\ Step
    /\ AcceptsButton(u)
    /\ IF u \in ADMIN_IDS
       THEN /\ user_data' = [user_data EXCEPT ![u] = Set(@, "category_to_edit", category)]
            /\ Goto(u, WAITING_NEW_CATEGORY_NAME)
            /\ out' = [kind |-> "ask_new_category_name", user |-> u]
       ELSE /\ out' = [kind |-> "nothing", user |-> u]
            /\ UNCHANGED <<user_data, state>>
    /\ UNCHANGED <<CATALOG, stats, groups, callback_store, hash_seed, access, soldout_prompts, nav_buttons>>

\* new_category of handle_new_category_name (the definition of line 3631, which
\* rebinds the name defined at line 675)
NewCategoryKey(gs, u, old_category, new_name) ==
    LET mine == SelectSeq(gs, LAMBDA g : u \in g.members
                                         /\ StartsWith(old_category, Prefix(g.name)))
    IN IF mine # <<>> THEN Prefix(mine[1].name) \o new_name ELSE new_name

\* CATALOG[new_category] = CATALOG.pop(old_category)
Rename(cat, old, new) == Append(Del(cat, old), [key |-> new, products |-> Products(cat, old)])

handle_new_category_name(u, text) ==
    /\ Step
    /\ state[u] = WAITING_NEW_CATEGORY_NAME
    /\ LET old_category == Get(user_data[u], "category_to_edit")
           new_category == NewCategoryKey(groups, u, old_category, text)
       IN  IF Has(CATALOG, new_category)
           THEN /\ Goto(u, WAITING_NEW_CATEGORY_NAME)
                /\ out' = [kind |-> "category_exists", user |-> u, key |-> new_category]
                /\ UNCHANGED CATALOG
           ELSE IF ~Has(CATALOG, old_category)
           THEN /\ out' = [kind |-> "exception", user |-> u]
                /\ UNCHANGED <<CATALOG, state>>
           ELSE /\ CATALOG' = Rename(CATALOG, old_category, new_category)
                /\ Goto(u, CHOOSING)
                /\ out' = [kind |-> "category_renamed", user |-> u,
                           old |-> old_category, new |-> new_category, typed |-> text]
    /\ UNCHANGED <<stats, groups, user_data, callback_store, hash_seed, access, soldout_prompts, nav_buttons>>

----------------------------------------------------------------------------
(* Editing a product *)

CharCode(c) ==
    CASE c = "a" -> 1 [] c = "b" -> 2 [] c = "V" -> 3 [] c = "W" -> 4
      [] c = "_" -> 5 [] c = "S" -> 6 [] c = "O" -> 7 [] OTHER -> 8

RECURSIVE Poly(_, _)
Poly(s, h) == IF s = <<>> THEN h ELSE Poly(Tail(s), (h * 31 + CharCode(Head(s))) % 1000003)

\* abs(hash(text)): str hashes are salted per process; seed 0 spreads the texts,
\* seed 1 is a process in which texts of equal length collide
Hash(text) == IF hash_seed = 0 THEN Poly(text, 7) ELSE Len(text)

HashModulus == 10000

\* str(abs(hash(text)) % 10000)
encode_for_callback(text) == Hash(text) % HashModulus

\* show_product of the editcat_ branch
EditShows(gs, u, category, product_name) ==
    LET user_groups == UserGroups(gs, u)
        first_group == IF user_groups = <<>> THEN <<>> ELSE <<user_groups[1]>>
    IN  IF ~HasGroupPrefix(gs, category)
        THEN IF first_group # <<>>
             THEN \E i \in DOMAIN first_group :
                      StartsWith(product_name, Prefix(first_group[i]))
             ELSE ~HasGroupPrefix(gs, product_name)
        ELSE \E i \in DOMAIN gs :
                 StartsWith(category, Prefix(gs[i].name)) /\ u \in gs[i].members

\* the callback_<id> entries after the loop over the products of the category
RECURSIVE StoreCallbacks(_, _, _, _, _)
StoreCallbacks(store, gs, u, category, ps) ==
    IF ps = <<>> THEN store
    ELSE LET name == Head(ps).name
             id == encode_for_callback(category \o US \o name)
             next == IF EditShows(gs, u, category, name)
                     THEN [x \in (DOMAIN store) \cup {id} |->
                              IF x = id THEN [category |-> category, product_name |-> name]
                              ELSE store[x]]
                     ELSE store
         IN StoreCallbacks(next, gs, u, category, Tail(ps))

\* the buttons of the edit listing: <<stored name, id>> in order
EditButtons(gs, u, category, ps) ==
    LET shown == SelectSeq(ps, LAMBDA q : EditShows(gs, u, category, q.name))
    IN [i \in DOMAIN shown |->
           [name |-> shown[i].name,
            id |-> encode_for_callback(category \o US \o shown[i].name)]]

\* query.data.startswith("editcat_")
editcat(u, category) ==
    /\ Step
    /\ AcceptsButton(u)
    /\ IF Has(CATALOG, category)
       THEN /\ callback_store' = [callback_store EXCEPT
                    ![u] = StoreCallbacks(@, groups, u, category, Products(CATALOG, category))]
            /\ Goto(u, SELECTING_PRODUCT_TO_EDIT)
            /\ out' = [kind |-> "edit_listing", user |-> u, key |-> category,
                       buttons |-> EditButtons(groups, u, category,
                                               Products(CATALOG, category))]
       ELSE /\ out' = [kind |-> "nothing", user |-> u]
            /\ UNCHANGED <<callback_store, state>>
    /\ UNCHANGED <<CATALOG, stats, groups, user_data, hash_seed, access, soldout_prompts, nav_buttons>>

\* has_access of the editp_ branch
EditAccess(gs, u, category) ==
    LET i == OwnerIndex(gs, category)
    IN i = 0 \/ u \in gs[i].members

\* query.data.startswith("editp_")
editp(u, id) ==
    /\ Step
    /\ AcceptsButton(u)
    /\ IF id \notin DOMAIN callback_store[u]
       THEN /\ Goto(u, CHOOSING)
            /\ out' = [kind |-> "admin_menu", user |-> u]
            /\ UNCHANGED user_data
       ELSE LET stored == callback_store[u][id]
            IN  IF /\ EditAccess(groups, u, stored.category)
                   /\ Has(CATALOG, stored.category)
                   /\ stored.product_name \in ProductNames(Products(CATALOG, stored.category))
                THEN /\ user_data' = [user_data EXCEPT
                            ![u] = Set(Set(@, "editing_category", stored.category),
                                       "editing_product", stored.product_name)]
                     /\ Goto(u, EDITING_PRODUCT_FIELD)
                     /\ out' = [kind |-> "edit_fields", user |-> u,
                                product |-> stored.product_name]
                ELSE /\ Goto(u, CHOOSING)
                     /\ out' = [kind |-> "admin_menu", user |-> u]
                     /\ UNCHANGED user_data
    /\ UNCHANGED <<CATALOG, stats, groups, callback_store, hash_seed, access, soldout_prompts, nav_buttons>>

EditFields == { <<"name">>, <<"price">>, <<"description">>, <<"media">> }

\* query.data in ["edit_name", "edit_price", "edit_desc", "edit_media"]
edit_field(u, field) ==
    /\ Step
    /\ AcceptsButton(u)
    /\ LET ud == Set(user_data[u], "editing_field", field)
           category == Get(ud, "editing_category")
           product_name == Get(ud, "editing_product")
       IN  IF ~Has(CATALOG, category)
           THEN \* CATALOG[category] raises KeyError
                /\ user_data' = [user_data EXCEPT ![u] = ud]
                /\ out' = [kind |-> "exception", user |-> u]
                /\ UNCHANGED state
           ELSE IF product_name \notin ProductNames(Products(CATALOG, category))
           THEN /\ user_data' = [user_data EXCEPT ![u] = ud]
                /\ out' = [kind |-> "nothing", user |-> u]
                /\ UNCHANGED state
           ELSE IF field = <<"media">>
           THEN LET ps == Products(CATALOG, category)
                    product == ps[CHOOSE i \in DOMAIN ps :
                                     /\ ps[i].name = product_name
                                     /\ \A j \in 1..(i - 1) : ps[j].name # product_name]
                IN  /\ user_data' = [user_data EXCEPT ![u] =
                           Set(Set(Set(Set(Set(Set(ud,
                               "temp_product_category", category),
                               "temp_product_name", product_name),
                               "temp_product_price", product.price),
                               "temp_product_description", product.description),
                               "temp_product_media", <<>>),
                               "media_count", 0)]
                    /\ Goto(u, WAITING_PRODUCT_MEDIA)
                    /\ out' = [kind |-> "ask_product_media", user |-> u]
           ELSE /\ user_data' = [user_data EXCEPT ![u] = ud]
                /\ Goto(u, WAITING_NEW_VALUE)
                /\ out' = [kind |-> "ask_new_value", user |-> u]
    /\ UNCHANGED <<CATALOG, stats, groups, callback_store, hash_seed, access, soldout_prompts, nav_buttons>>

\* new_value of handle_new_value: a new name keeps the group prefix of the old one
NewValue(gs, field, old_product_name, text) ==
    IF field = <<"name">> /\ HasGroupPrefix(gs, old_product_name)
    THEN Prefix(gs[OwnerIndex(gs, old_product_name)].name) \o text
    ELSE text

\* the list with the field of the first product named name set to value
RECURSIVE SetField(_, _, _, _)
SetField(ps, name, field, value) ==
    IF ps = <<>> THEN <<>>
    ELSE IF Head(ps).name = name
         THEN <<[x \in (DOMAIN Head(ps)) \cup {field[1]} |->
                    IF x = field[1] THEN value ELSE Head(ps)[x]]>> \o Tail(ps)
         ELSE <<Head(ps)>> \o SetField(Tail(ps), name, field, value)

handle_new_value(u, text) ==
    /\ Step
    /\ state[u] = WAITING_NEW_VALUE
    /\ LET field == Get(user_data[u], "editing_field")
           category == Get(user_data[u], "editing_category")
           old_product_name == Get(user_data[u], "editing_product")
       IN  IF \/ None \in {field, category, old_product_name}
              \/ ~Has(CATALOG, category)
              \/ old_product_name \notin ProductNames(ProductsOrEmpty(CATALOG, category))
           THEN /\ out' = [kind |-> "edit_error", user |-> u]
                /\ UNCHANGED CATALOG
           ELSE /\ CATALOG' = Put(CATALOG, category,
                       SetField(Products(CATALOG, category), old_product_name, field,
                                NewValue(groups, field, old_product_name, text)))
                /\ out' = [kind |-> "edit_done", user |-> u, key |-> category,
                           product |-> old_product_name, field |-> field,
                           typed |-> text]
    /\ Goto(u, CHOOSING)
    /\ UNCHANGED <<stats, groups, user_data, callback_store, hash_seed, access, soldout_prompts, nav_buttons>>

----------------------------------------------------------------------------
(* Browsing: the category listing and the product listing of a category.       *)
(* The message handles kept in user_data (menu_message_id, category_message_*, *)
(* last_product_message_id) belong to the transport and are not modelled.      *)

\* show_category by the rule of the edit_category listing: a user who is in a
\* group is shown the categories of their groups only
ShowCategory_OwnOnly(gs, u, category) == EditCategoryLists(gs, u, category)

\* show_category of the show_categories branch
ShowCategory(gs, u, category) ==
    LET i == OwnerIndex(gs, category)
        user_groups == UserGroups(gs, u)
    IN  IF i # 0
        THEN user_groups # <<>> /\ \E j \in DOMAIN user_groups : user_groups[j] = gs[i].name
        ELSE TRUE

\* display_name of the show_categories branch
CategoryDisplayName(gs, category) ==
    LET i == OwnerIndex(gs, category)
    IN IF i # 0 THEN Replace(category, Prefix(gs[i].name)) ELSE category

\* the keyboard of show_categories: one button per shown category, in dict order
CategoryButtons(gs, u, cat) ==
    LET shown == SelectSeq(cat, LAMBDA e : ShowCategory(gs, u, e.key))
    IN [i \in DOMAIN shown |->
           [key |-> shown[i].key,
            display_name |-> CategoryDisplayName(gs, shown[i].key),
            is_sold_out |-> IsSoldOutList(shown[i].products)]]

\* query.data == "show_categories", also an entry point of the conversation
show_categories(u) ==
    /\ Step
    /\ AcceptsButton(u) \/ state[u] = END
    /\ out' = [kind |-> "category_listing", user |-> u,
               buttons |-> CategoryButtons(groups, u, CATALOG)]
    /\ UNCHANGED <<CATALOG, stats, groups, state, user_data, callback_store, hash_seed, access, soldout_prompts, nav_buttons>>

\* the group test of the view_ branch: the category is public or u is in its group
ViewAccess(gs, u, category) ==
    LET i == OwnerIndex(gs, category)
    IN i = 0 \/ u \in gs[i].members

\* show_product of the view_ branch
ShowProduct(gs, u, product_name) ==
    LET i == OwnerIndex(gs, product_name)
    IN i = 0 \/ u \in gs[i].members

\* products filtered one by one in every category, group-scoped or not
ViewProducts_FilterAll(gs, u, category, ps) ==
    SelectSeq(ps, LAMBDA q : ShowProduct(gs, u, q.name))

\* products of the view_ branch, once the group test has passed
ViewProducts(gs, u, category, ps) ==
    IF HasGroupPrefix(gs, category) THEN ps
    ELSE SelectSeq(ps, LAMBDA q : ShowProduct(gs, u, q.name))

\* display_category_name of the view_ branch
ViewTitle(gs, u, category) ==
    LET mine == SelectSeq(gs, LAMBDA g : u \in g.members
                                         /\ StartsWith(category, Prefix(g.name)))
    IN IF mine # <<>> THEN Replace(category, Prefix(mine[1].name)) ELSE category

NavModulus == 1000

\* str(abs(hash(name)) % 1000)
NavId(name) == Hash(name) % NavModulus

\* the place of user_data['nav_product_<id>'] among the entries named by an id
NavKey(id) == HashModulus + id

\* the nav_product_<id> entries after the loop over the listed products
RECURSIVE StoreNav(_, _, _)
StoreNav(store, category, ps) ==
    IF ps = <<>> THEN store
    ELSE LET k == NavKey(NavId(Head(ps).name))
         IN StoreNav([x \in (DOMAIN store) \cup {k} |->
                          IF x = k THEN [category |-> category, name |-> Head(ps).name]
                          ELSE store[x]],
                     category, Tail(ps))

\* the buttons of the product listing, in order
ProductButtons(gs, ps) ==
    [i \in DOMAIN ps |->
        [name |-> ps[i].name,
         display_name |-> IF HasGroupPrefix(gs, ps[i].name)
                          THEN Replace(ps[i].name,
                                       Prefix(gs[OwnerIndex(gs, ps[i].name)].name))
                          ELSE ps[i].name,
         id |-> NavId(ps[i].name)]]

\* d[k] += 1, with d[k] = 0 first when k is not in d
Bump(d, k) == [x \in (DOMAIN d) \cup {k} |-> IF x = k THEN (IF k \in DOMAIN d THEN d[k] ELSE 0) + 1
                                              ELSE d[x]]

\* stats['category_views'][category] += 1; stats['total_views'] += 1
CountCategoryView(st, category) ==
    [st EXCEPT !.category_views = Bump(@, category), !.total_views = @ + 1]

RECURSIVE BumpAll(_, _)
BumpAll(d, ps) == IF ps = <<>> THEN d ELSE BumpAll(Bump(d, Head(ps).name), Tail(ps))

\* stats['product_views'][category][name] += 1 for every listed product
CountProductViews(st, category, ps) ==
    IF ps = <<>> THEN st
    ELSE LET pv == st.product_views
             old == IF category \in DOMAIN pv THEN pv[category] ELSE <<>>
         IN [st EXCEPT !.product_views =
                [x \in (DOMAIN pv) \cup {category} |->
                    IF x = category THEN BumpAll(old, ps) ELSE pv[x]]]

\* the counters of d whose key is in keep
Restrict(d, keep) ==
    LET ks == {k \in DOMAIN d : k \in keep}
    IN  IF ks = {} THEN <<>> ELSE [k \in ks |-> d[k]]

\* clean_stats that prunes the categories alone
clean_stats_CategoriesOnly(cat, st) ==
    [st EXCEPT !.category_views = Restrict(@, Keys(cat)),
               !.product_views = Restrict(@, Keys(cat))]

\* clean_stats: the counters of categories and products that are no longer in
\* the catalog are removed, and so is a category left with no product counter
clean_stats(cat, st) ==
    LET pv == st.product_views
        pruned == [c \in {c \in DOMAIN pv : Has(cat, c)} |->
                      Restrict(pv[c], ProductNames(Products(cat, c)))]
    IN  [st EXCEPT !.category_views = Restrict(@, Keys(cat)),
                   !.product_views = Restrict(pruned, {c \in DOMAIN pruned :
                                                          DOMAIN pruned[c] # {}})]

\* query.data == "show_stats"
show_stats(u) ==
    /\ Step
    /\ AcceptsButton(u)
    /\ stats' = clean_stats(CATALOG, stats)
    /\ out' = [kind |-> "stats", user |-> u, total_views |-> stats'.total_views]
    /\ UNCHANGED <<CATALOG, groups, state, user_data, callback_store, hash_seed, access, soldout_prompts, nav_buttons>>

\* context.user_data['category_message_id' / '_text' / '_reply_markup'] = ...
\* the message shown is remembered with the category it lists
StoreCategoryMessage(ud, category, keyboard) ==
    Set(Set(ud, "category_message_id", <<"m">>),
        "category_message_reply_markup", [key |-> category, buttons |-> keyboard])

\* query.data.startswith("view_")
view(u, category) ==
    /\ Step
    /\ AcceptsButton(u)
    /\ stats.total_views < MaxViews
    /\ IF ~Has(CATALOG, category)
       THEN /\ out' = [kind |-> "nothing", user |-> u]
            /\ UNCHANGED <<stats, state, user_data, callback_store>>
       ELSE IF ~ViewAccess(groups, u, category)
       THEN /\ stats' = CountCategoryView(stats, category)
            /\ Goto(u, CHOOSING)
            /\ out' = [kind |-> "no_access", user |-> u, key |-> category]
            /\ UNCHANGED <<user_data, callback_store>>
       ELSE LET products == ViewProducts(groups, u, category, Products(CATALOG, category))
                keyboard == ProductButtons(groups, products)
            IN  /\ stats' = CountProductViews(CountCategoryView(stats, category),
                                              category, products)
                /\ callback_store' = [callback_store EXCEPT
                                          ![u] = StoreNav(@, category, products)]
                /\ user_data' = [user_data EXCEPT
                                     ![u] = StoreCategoryMessage(@, category, keyboard)]
                /\ out' = [kind |-> "product_listing", user |-> u, key |-> category,
                           title |-> ViewTitle(groups, u, category),
                           buttons |-> keyboard]
                /\ UNCHANGED state
    /\ UNCHANGED <<CATALOG, groups, hash_seed, access, soldout_prompts, nav_buttons>>

\* stats['product_views'][category][name] += 1; stats['total_views'] += 1
CountProductView(st, category, name) ==
    LET pv == st.product_views
        old == IF category \in DOMAIN pv THEN pv[category] ELSE <<>>
    IN  [st EXCEPT !.product_views =
                       [x \in (DOMAIN pv) \cup {category} |->
                           IF x = category THEN Bump(old, name) ELSE pv[x]],
                   !.total_views = @ + 1]

\* the product a stored nav entry names has a 'media' key
HasMedia(cat, product_info) ==
    /\ Has(cat, product_info.category)
    /\ \E i \in DOMAIN Products(cat, product_info.category) :
           LET q == Products(cat, product_info.category)[i]
           IN  /\ q.name = product_info.name
               /\ \A j \in 1..(i - 1) :
                      Products(cat, product_info.category)[j].name # q.name
               /\ "media" \in DOMAIN q

\* product['media'] of the first product with the stored name ([] without one)
MediaOf(cat, product_info) ==
    IF HasMedia(cat, product_info)
    THEN LET ps == Products(cat, product_info.category)
             i == CHOOSE i \in DOMAIN ps :
                      /\ ps[i].name = product_info.name
                      /\ \A j \in 1..(i - 1) : ps[j].name # product_info.name
         IN  ps[i].media
    ELSE <<>>

\* query.data.startswith("product_"): the press of the button nav id of a
\* product listing
product(u, id) ==
    /\ Step
    /\ AcceptsButton(u)
    /\ stats.total_views < MaxViews
    /\ IF id \notin DOMAIN callback_store[u]
       THEN /\ out' = [kind |-> "nothing", user |-> u]
            /\ UNCHANGED stats
       ELSE LET product_info == callback_store[u][id]
            IN  IF ~Has(CATALOG, product_info.category)
                THEN \* CATALOG[category] raises KeyError, which the branch catches
                     /\ out' = [kind |-> "exception", user |-> u]
                     /\ UNCHANGED stats
                ELSE IF product_info.name
                            \notin ProductNames(Products(CATALOG, product_info.category))
                THEN /\ out' = [kind |-> "nothing", user |-> u]
                     /\ UNCHANGED stats
                ELSE /\ stats' = CountProductView(stats, product_info.category,
                                                  product_info.name)
                     /\ out' = [kind |-> "product_shown", user |-> u,
                                key |-> product_info.category,
                                product |-> product_info.name]
    /\ LET media == IF id \in DOMAIN callback_store[u]
                    THEN MediaOf(CATALOG, callback_store[u][id])
                    ELSE <<>>
       IN  \* if 'media' in product and product['media']: the first media is
           \* shown, with the prev_/next_ buttons when there are several
           /\ user_data' = IF media # <<>>
                           THEN [user_data EXCEPT ![u] = Set(@, "current_media_index", 0)]
                           ELSE user_data
           /\ nav_buttons' = IF Len(media) > 1
                             THEN [nav_buttons EXCEPT ![u] = @ \cup {id}]
                             ELSE nav_buttons
    /\ UNCHANGED <<CATALOG, groups, state, callback_store, hash_seed, access, soldout_prompts>>

\* sorted(media, key=lambda x: x.get('order_index', 0)): ascending, and the
\* media of equal order_index in the order of the list
RECURSIVE SortMedia(_)
SortMedia(media) ==
    IF media = <<>> THEN <<>>
    ELSE LET least == CHOOSE i \in DOMAIN media :
                          /\ \A j \in DOMAIN media :
                                 media[i].order_index <= media[j].order_index
                          /\ \A j \in 1..(i - 1) :
                                 media[j].order_index # media[i].order_index
         IN  <<media[least]>>
                 \o SortMedia(SubSeq(media, 1, least - 1)
                                 \o SubSeq(media, least + 1, Len(media)))

\* query.data.startswith(("next_", "prev_")): the press of a prev_ or next_
\* button that carries the nav id
navigate(u, direction, id) ==
    /\ Step
    /\ AcceptsButton(u)
    /\ IF id \notin DOMAIN callback_store[u]
       THEN /\ out' = [kind |-> "nothing", user |-> u]
            /\ UNCHANGED user_data
       ELSE LET product_info == callback_store[u][id]
            IN  IF ~Has(CATALOG, product_info.category)
                THEN \* CATALOG[category] raises KeyError, which the branch catches
                     /\ out' = [kind |-> "exception", user |-> u]
                     /\ UNCHANGED user_data
                ELSE IF ~HasMedia(CATALOG, product_info)
                THEN /\ out' = [kind |-> "nothing", user |-> u]
                     /\ UNCHANGED user_data
                ELSE LET media_list == SortMedia(MediaOf(CATALOG, product_info))
                         total_media == Len(media_list)
                         ud == user_data[u]
                         current_index == IF "current_media_index" \in DOMAIN ud
                                          THEN ud["current_media_index"] ELSE 0
                         moved == IF direction = "next"
                                  THEN IF current_index + 1 >= total_media
                                       THEN 0 ELSE current_index + 1
                                  ELSE IF current_index - 1 < 0
                                       THEN total_media - 1 ELSE current_index - 1
                     IN  /\ user_data' = [user_data EXCEPT
                                              ![u] = Set(@, "current_media_index", moved)]
                         /\ out' = [kind |-> IF moved \in 0..(total_media - 1)
                                              THEN "media_shown"
                                              \* media_list[current_index] raises
                                              \* IndexError, which the branch catches
                                              ELSE "media_exception",
                                    user |-> u, key |-> product_info.category,
                                    product |-> product_info.name,
                                    direction |-> direction, from |-> current_index,
                                    index |-> moved, total |-> total_media]
    /\ UNCHANGED <<CATALOG, stats, groups, state, callback_store, hash_seed, access, soldout_prompts, nav_buttons>>

\* the recreated menu of back_to_categories: one button per key of CATALOG
AllCategoryButtons(cat) ==
    [i \in DOMAIN cat |-> [key |-> cat[i].key, display_name |-> cat[i].key]]

\* query.data == "back_to_categories"
back_to_categories(u) ==
    /\ Step
    /\ AcceptsButton(u)
    /\ IF "category_message_id" \in DOMAIN user_data[u]
       THEN LET stored == user_data[u]["category_message_reply_markup"]
            IN  out' = [kind |-> "product_listing_again", user |-> u,
                        key |-> stored.key, buttons |-> stored.buttons]
       ELSE out' = [kind |-> "category_listing_all", user |-> u,
                    buttons |-> AllCategoryButtons(CATALOG)]
    /\ UNCHANGED <<CATALOG, stats, groups, state, user_data, callback_store, hash_seed, access, soldout_prompts, nav_buttons>>

\* a user joins a group (the group directory is kept by admin_features)
add_group_member(u, g) ==
    /\ Step
    /\ \E i \in DOMAIN groups :
           /\ groups[i].name = g
           /\ u \notin groups[i].members
           /\ groups' = [groups EXCEPT ![i].members = @ \cup {u}]
    /\ out' = [kind |-> "member_added", user |-> u, group |-> g]
    /\ UNCHANGED <<CATALOG, stats, state, user_data, callback_store, hash_seed, access, soldout_prompts, nav_buttons>>

----------------------------------------------------------------------------
(* The category pickers of the administration menu *)

\* the first of the user's groups whose prefix the category carries (0 when none)
OwnGroupIndex(gs, u, category) ==
    LET user_groups == UserGroups(gs, u)
    IN  IF \E i \in DOMAIN user_groups : StartsWith(category, Prefix(user_groups[i]))
        THEN CHOOSE i \in DOMAIN user_groups :
                /\ StartsWith(category, Prefix(user_groups[i]))
                /\ \A j \in 1..(i - 1) : ~StartsWith(category, Prefix(user_groups[j]))
        ELSE 0

\* the button of a category in a picker
PickerButton(gs, u, category) ==
    [key |-> category,
     display_name |-> IF OwnGroupIndex(gs, u, category) # 0
                      THEN Replace(category,
                                   Prefix(UserGroups(gs, u)[OwnGroupIndex(gs, u, category)]))
                      ELSE category]

\* the picker of add_product: the categories of the user's groups and the
\* public ones; the public ones alone for a user in no group
AddProductButtons(gs, u, cat) ==
    LET shown == SelectSeq(cat, LAMBDA e :
                     \/ OwnGroupIndex(gs, u, e.key) # 0
                     \/ ~HasGroupPrefix(gs, e.key))
    IN  [i \in DOMAIN shown |-> PickerButton(gs, u, shown[i].key)]

\* query.data == "add_product"
add_product(u) ==
    /\ Step
    /\ AcceptsButton(u)
    /\ Goto(u, SELECTING_CATEGORY)
    /\ out' = [kind |-> "add_product_picker", user |-> u,
               buttons |-> AddProductButtons(groups, u, CATALOG)]
    /\ UNCHANGED <<CATALOG, stats, groups, user_data, callback_store, hash_seed, access, soldout_prompts, nav_buttons>>

\* the picker of delete_category: the categories of the user's groups alone;
\* the public ones alone for a user in no group
DeleteCategoryButtons(gs, u, cat) ==
    LET shown == SelectSeq(cat, LAMBDA e :
                     IF UserGroups(gs, u) # <<>>
                     THEN OwnGroupIndex(gs, u, e.key) # 0
                     ELSE ~HasGroupPrefix(gs, e.key))
    IN  [i \in DOMAIN shown |-> PickerButton(gs, u, shown[i].key)]

\* query.data == "delete_category"
delete_category(u) ==
    /\ Step
    /\ AcceptsButton(u)
    /\ Goto(u, SELECTING_CATEGORY_TO_DELETE)
    /\ out' = [kind |-> "delete_category_picker", user |-> u,
               buttons |-> DeleteCategoryButtons(groups, u, CATALOG)]
    /\ UNCHANGED <<CATALOG, stats, groups, user_data, callback_store, hash_seed, access, soldout_prompts, nav_buttons>>

----------------------------------------------------------------------------
(* The access gate: start, the access code, /admin, the gate toggle, bans *)

\* the codes users type: ValidCode has been generated and has not expired,
\* ExpiredCode has expired, any other text was never generated
ValidCode == <<"a">>
ExpiredCode == <<"b">>
Codes == {ValidCode, ExpiredCode, <<"c">>, <<" ", "a">>}

\* text.strip()
RECURSIVE Strip(_)
Strip(s) ==
    IF s = <<>> THEN s
    ELSE IF Head(s) = " " THEN Strip(Tail(s))
    ELSE IF s[Len(s)] = " " THEN Strip(SubSeq(s, 1, Len(s) - 1))
    ELSE s

\* is_authorized that forgets who redeemed a code
is_authorized_GateOnly(enabled, authorized, u) == ~enabled

\* access_manager.is_authorized(user_id)
is_authorized(enabled, authorized, u) == ~enabled \/ u \in authorized

\* access_manager.verify_code(code, user_id): the result
verify_code(enabled, authorized, code, u) ==
    IF ~enabled \/ u \in authorized THEN "authorized"
    ELSE IF code = ValidCode THEN "authorized"
    ELSE IF code = ExpiredCode THEN "expired"
    ELSE "invalid"

\* access_manager.verify_code(code, user_id): the authorized users afterwards
Redeem(enabled, authorized, code, u) ==
    IF enabled /\ u \notin authorized /\ code = ValidCode
    THEN authorized \cup {u}
    ELSE authorized

\* del user_data[k] for each k of ks that is there
Unset(ud, ks) == [x \in (DOMAIN ud) \ ks |-> ud[x]]

\* start with the authorization check before the ban check
StartState_AuthorizationFirst(banned, authorized) ==
    IF ~authorized THEN WAITING_FOR_ACCESS_CODE
    ELSE IF banned THEN END
    ELSE CHOOSING

\* what start returns: the ban check comes first, then the authorization check
StartState(banned, authorized) ==
    IF banned THEN END
    ELSE IF ~authorized THEN WAITING_FOR_ACCESS_CODE
    ELSE CHOOSING

\* a stored message id that is no longer valid makes start raise
StaleRaises_Unguarded(stale) == stale

\* delete_message of a stored message id raises when the id is no longer
\* valid; every such call of start is inside try/except, so start goes on
StaleRaises(stale) == FALSE

\* user_data when start returns; the banner id is forgotten only when its
\* message could be deleted
StartData(ud, banned, authorized, stale) ==
    IF banned THEN Empty
    ELSE IF ~authorized THEN Set(ud, "initial_welcome_message_id", <<"m">>)
    ELSE IF stale THEN ud
    ELSE Unset(ud, {"banner_message_id"})

\* what start renders
StartScreen(banned, authorized) ==
    IF banned THEN "none"
    ELSE IF ~authorized THEN "code_challenge"
    ELSE "home_menu"

\* the body of start, run for user u with user_data ud; via names the handler
\* registration that ran it, stale tells that the stored message ids are no
\* longer valid
StartEffects(u, ud, authorized, via, stale) ==
    LET banned == u \in banned_users
        ok == is_authorized(access_code_enabled, authorized, u)
        duplicate == out.kind = "start" /\ out.user = u /\ out.via = via
    IN  IF StaleRaises(stale)
        THEN /\ out' = [kind |-> "start", user |-> u, via |-> via, stale |-> stale,
                        duplicate |-> duplicate, raised |-> TRUE,
                        screen |-> "none", returned |-> "none"]
             /\ UNCHANGED <<user_data, callback_store>>
        ELSE /\ user_data' = [user_data EXCEPT ![u] = StartData(ud, banned, ok, stale)]
             /\ callback_store' = [callback_store EXCEPT
                                       ![u] = IF banned THEN Empty ELSE @]
             /\ out' = [kind |-> "start", user |-> u, via |-> via, stale |-> stale,
                        duplicate |-> duplicate, raised |-> FALSE,
                        screen |-> StartScreen(banned, ok),
                        returned |-> StartState(banned, ok)]

\* the conversation state after start: what it returned, the state as it was
\* when it raised
StartGoto(u, stale) ==
    IF StaleRaises(stale)
    THEN UNCHANGED state
    ELSE Goto(u, StartState(u \in banned_users,
                            is_authorized(access_code_enabled, authorized_users, u)))

\* CommandHandler('start', start) of entry_points and fallbacks
start(u) ==
    /\ Step
    /\ AcceptsCommand(u)
    /\ \E stale \in BOOLEAN :
           /\ StartEffects(u, user_data[u], authorized_users, "command", stale)
           /\ StartGoto(u, stale)
    /\ UNCHANGED <<CATALOG, stats, groups, hash_seed, access, soldout_prompts, nav_buttons>>

\* CallbackQueryHandler(start, pattern="^cancel_access$") of WAITING_FOR_ACCESS_CODE
cancel_access(u) ==
    /\ Step
    /\ state[u] = WAITING_FOR_ACCESS_CODE
    /\ \E stale \in BOOLEAN :
           /\ StartEffects(u, user_data[u], authorized_users, "cancel_access", stale)
           /\ StartGoto(u, stale)
    /\ UNCHANGED <<CATALOG, stats, groups, hash_seed, access, soldout_prompts, nav_buttons>>

\* application.add_handler(CallbackQueryHandler(start, pattern="^start_cmd$")):
\* registered before the conversation, so what start returns goes nowhere
start_cmd(u) ==
    /\ Step
    /\ \E stale \in BOOLEAN :
           StartEffects(u, user_data[u], authorized_users, "start_cmd", stale)
    /\ UNCHANGED <<CATALOG, stats, groups, state, hash_seed, access, soldout_prompts, nav_buttons>>

\* a valid code that leaves user_data as it was
AfterValidCode_Keep(ud) == ud

\* user_data (its fixed keys, its id-keyed entries) after a valid code:
\* context.user_data.clear()
AfterValidCode(ud) == Empty

\* MessageHandler(filters.TEXT & ~filters.COMMAND, handle_access_code)
handle_access_code(u, text) ==
    /\ Step
    /\ state[u] = WAITING_FOR_ACCESS_CODE
    /\ LET code == Strip(text)
           reason == verify_code(access_code_enabled, authorized_users, code, u)
           authorized == Redeem(access_code_enabled, authorized_users, code, u)
       IN  /\ authorized_users' = authorized
           /\ IF reason = "authorized"
              THEN LET ud == AfterValidCode(user_data[u])
                       banned == u \in banned_users
                       ok == is_authorized(access_code_enabled, authorized, u)
                   IN  /\ user_data' = [user_data EXCEPT
                                            ![u] = StartData(ud, banned, ok, FALSE)]
                       /\ callback_store' = [callback_store EXCEPT
                                                 ![u] = IF banned THEN Empty
                                                        ELSE AfterValidCode(@)]
                       /\ Goto(u, StartState(banned, ok))
                       /\ out' = [kind |-> "access_code", user |-> u, result |-> reason,
                                  screen |-> StartScreen(banned, ok)]
              ELSE /\ Goto(u, WAITING_FOR_ACCESS_CODE)
                   /\ out' = [kind |-> "access_code", user |-> u, result |-> reason,
                              screen |-> "code_error"]
                   /\ UNCHANGED <<user_data, callback_store>>
    /\ UNCHANGED <<CATALOG, stats, groups, hash_seed, banned_users, access_code_enabled,
                   soldout_prompts, nav_buttons>>

\* the message ids /admin deletes from user_data
AdminDeletes ==
    {"menu_message_id", "banner_message_id", "category_message_id",
     "last_product_message_id", "instruction_message_id"}

\* CommandHandler('admin', admin) of entry_points and fallbacks
admin(u) ==
    /\ Step
    /\ AcceptsCommand(u)
    /\ IF u \in ADMIN_IDS
       THEN /\ user_data' = [user_data EXCEPT ![u] = Unset(@, AdminDeletes)]
            /\ Goto(u, CHOOSING)
            /\ out' = [kind |-> "admin_menu", user |-> u, via |-> "command"]
       ELSE /\ Goto(u, END)
            /\ out' = [kind |-> "not_admin", user |-> u]
            /\ UNCHANGED user_data
    /\ UNCHANGED <<CATALOG, stats, groups, callback_store, hash_seed, access, soldout_prompts, nav_buttons>>

\* query.data == "toggle_access_code"
toggle_access_code(u) ==
    /\ Step
    /\ AcceptsButton(u)
    /\ Goto(u, CHOOSING)
    /\ IF u \in ADMIN_IDS
       THEN /\ access_code_enabled' = ~access_code_enabled
            /\ out' = [kind |-> "admin_menu", user |-> u, via |-> "toggle_access_code"]
       ELSE /\ out' = [kind |-> "toggle_refused", user |-> u]
            /\ UNCHANGED access_code_enabled
    /\ UNCHANGED <<CATALOG, stats, groups, user_data, callback_store, hash_seed,
                   banned_users, authorized_users, soldout_prompts, nav_buttons>>

\* /ban: an administrator bans target (the ban list is kept by admin_features)
ban_user(u, target) ==
    /\ Step
    /\ u \in ADMIN_IDS
    /\ target \notin banned_users
    /\ banned_users' = banned_users \cup {target}
    /\ out' = [kind |-> "banned", user |-> u, target |-> target]
    /\ UNCHANGED <<CATALOG, stats, groups, state, user_data, callback_store, hash_seed,
                   authorized_users, access_code_enabled, soldout_prompts, nav_buttons>>

\* unban_<id>: an administrator lifts the ban of target
unban_user(u, target) ==
    /\ Step
    /\ u \in ADMIN_IDS
    /\ target \in banned_users
    /\ banned_users' = banned_users \ {target}
    /\ out' = [kind |-> "unbanned", user |-> u, target |-> target]
    /\ UNCHANGED <<CATALOG, stats, groups, state, user_data, callback_store, hash_seed,
                   authorized_users, access_code_enabled, soldout_prompts, nav_buttons>>

----------------------------------------------------------------------------
(* Specification Spec: the add-product flow, sold out and product deletion,    *)
(* run by the two administrators                                               *)

Init == InitWith(InitCatalogs, InitGroups, {0}, MaxSteps)

Next ==
    \/ \E u \in ADMIN_IDS : cancel_button(u)
    \/ \E u \in ADMIN_IDS, c \in Keys(CATALOG) : select_category(u, c)
    \/ \E u \in ADMIN_IDS, text \in Texts : handle_product_name(u, text)
    \/ \E u \in ADMIN_IDS : handle_product_price(u, <<"2">>)
    \/ \E u \in ADMIN_IDS : handle_product_description(u, <<"f">>)
    \/ \E u \in ADMIN_IDS, m \in MediaInputs : handle_product_media(u, m)
    \/ \E u \in ADMIN_IDS : finish_product_media(u)
    \/ \E u \in ADMIN_IDS : state[u] = WAITING_PRODUCT_MEDIA /\ skip_media(u)
    \/ \E u \in ADMIN_IDS, c \in Keys(CATALOG) : confirm_soldout(u, c)
    \/ \E u \in ADMIN_IDS, c \in Keys(CATALOG) :
           \E q \in ProductNames(Products(CATALOG, c)) : really_delete_product(u, c, q)

Spec == Init /\ [][Next]_vars

----------------------------------------------------------------------------
(* Specification SpecEdit: the edit-product flow, run by the two               *)
(* administrators on categories that hold two products                         *)

InitEditCatalogs ==
    { << [key |-> <<"a">>, products |-> <<Product(<<"a">>), Product(<<"b">>)>>] >>,
      << [key |-> <<"V", "_", "a">>,
          products |-> <<Product(<<"a">>), Product(<<"V", "_", "b">>)>>] >> }

InitEdit == InitWith(InitEditCatalogs, InitGroups, HashSeeds, MaxEditSteps)

NextEdit ==
    \/ \E u \in ADMIN_IDS : cancel_button(u)
    \/ \E u \in ADMIN_IDS, c \in Keys(CATALOG) : editcat(u, c)
    \/ \E u \in ADMIN_IDS : \E id \in DOMAIN callback_store[u] :
           state[u] = SELECTING_PRODUCT_TO_EDIT /\ editp(u, id)
    \/ \E u \in ADMIN_IDS, field \in EditFields :
           state[u] = EDITING_PRODUCT_FIELD /\ edit_field(u, field)
    \/ \E u \in ADMIN_IDS, text \in Texts : handle_new_value(u, text)
    \/ \E u \in ADMIN_IDS, m \in MediaInputs : handle_product_media(u, m)
    \/ \E u \in ADMIN_IDS : finish_product_media(u)

SpecEdit == InitEdit /\ [][NextEdit]_vars

----------------------------------------------------------------------------
(* Specification SpecCategory: creating, renaming and deleting categories,     *)
(* with events from the two administrators and from user 3, who is none        *)

InitCategory == InitWith(InitCatalogs, InitGroups, {0}, MaxCategorySteps)

NextCategory ==
    \/ \E u \in Users : admin_button(u)
    \/ \E u \in Users : add_category(u)
    \/ \E u \in Users, text \in Texts : handle_category_name(u, text)
    \/ \E u \in Users, c \in Keys(CATALOG) :
           EditCategoryLists(groups, u, c) /\ edit_cat_name(u, c)
    \/ \E u \in Users, text \in Texts : handle_new_category_name(u, text)
    \/ \E u \in Users, c \in ButtonKeys : confirm_delete_category(u, c)
    \/ \E u \in Users : show_categories(u)

SpecCategory == InitCategory /\ [][NextCategory]_vars

----------------------------------------------------------------------------
(* Specification SpecView: users browse a catalog of public and group-scoped   *)
(* categories and products while users join groups                             *)

InitViewCatalogs ==
    { << [key |-> <<"a">>, products |-> <<Product(<<"a">>), Product(<<"V", "_", "b">>)>>],
         [key |-> <<"V", "_", "a">>,
          products |-> <<Product(<<"W", "_", "b">>), Product(<<"b">>)>>],
         [key |-> <<"W", "_", "b">>, products |-> <<SoldOutProduct>>] >>,
      << [key |-> <<"b">>, products |-> <<Product(<<"W", "_", "a">>)>>],
         [key |-> <<"V", "_", "b">>, products |-> <<>>] >> }

InitView == InitWith(InitViewCatalogs, InitGroups, {0}, MaxViewSteps)

NextView ==
    \/ \E u \in Users : show_categories(u)
    \/ \E u \in Users, c \in Keys(CATALOG) : view(u, c)
    \/ \E u \in Users : back_to_categories(u)
    \/ \E u \in Users, g \in {GroupV, GroupW} : add_group_member(u, g)

SpecView == InitView /\ [][NextView]_vars

----------------------------------------------------------------------------
(* Specification SpecAccess: the process has just started, no user has a       *)
(* conversation; users start, type access codes, browse and begin the          *)
(* add-product flow while an administrator toggles the code gate and bans      *)

AccessUsers == {1, 3}

InitAccessCatalogs == { << [key |-> <<"a">>, products |-> <<Product(<<"a">>)>>] >> }

InitAccess ==
    /\ CATALOG \in InitAccessCatalogs
    /\ stats = InitStats
    /\ groups \in InitGroups
    /\ state = [u \in Users |-> END]
    /\ user_data = [u \in Users |-> Empty]
    /\ callback_store = [u \in Users |-> Empty]
    /\ hash_seed = 0
    /\ banned_users = {}
    /\ authorized_users = {}
    /\ access_code_enabled \in BOOLEAN
    /\ soldout_prompts = [u \in Users |-> {}]
    /\ nav_buttons = [u \in Users |-> {}]
    /\ out = [kind |-> "none"]
    /\ steps = MaxAccessSteps

NextAccess ==
    \/ \E u \in AccessUsers : start(u)
    \/ \E u \in AccessUsers : cancel_access(u)
    \/ \E u \in AccessUsers : start_cmd(u)
    \/ \E u \in AccessUsers, text \in Codes : handle_access_code(u, text)
    \/ \E u \in AccessUsers : admin(u)
    \/ \E u \in AccessUsers : toggle_access_code(u)
    \/ \E u \in AccessUsers, target \in AccessUsers \ ADMIN_IDS : ban_user(u, target)
    \/ \E u \in AccessUsers, target \in AccessUsers \ ADMIN_IDS : unban_user(u, target)
    \/ \E u \in AccessUsers : show_categories(u)
    \/ \E u \in AccessUsers, c \in Keys(CATALOG) : view(u, c)
    \/ \E u \in AccessUsers, c \in Keys(CATALOG) : select_category(u, c)
    \/ \E u \in AccessUsers, c \in Keys(CATALOG) : confirm_soldout(u, c)

SpecAccess == InitAccess /\ [][NextAccess]_vars

----------------------------------------------------------------------------
(* Specification SpecCommands: an administrator walks through the flows of the *)
(* administration menu and sends /start or /admin from any point of them       *)

CommandUsers == {1}

InitCommands ==
    /\ CATALOG \in InitCatalogs
    /\ stats = InitStats
    /\ groups \in InitGroups
    /\ state = [u \in Users |-> END]
    /\ user_data = [u \in Users |-> Empty]
    /\ callback_store = [u \in Users |-> Empty]
    /\ hash_seed = 0
    /\ banned_users = {}
    /\ authorized_users = {}
    /\ access_code_enabled \in BOOLEAN
    /\ soldout_prompts = [u \in Users |-> {}]
    /\ nav_buttons = [u \in Users |-> {}]
    /\ out = [kind |-> "none"]
    /\ steps = MaxCommandSteps

NextCommands ==
    \/ \E u \in CommandUsers : start(u)
    \/ \E u \in CommandUsers : admin(u)
    \/ \E u \in CommandUsers : handle_access_code(u, ValidCode)
    \/ \E u \in CommandUsers : toggle_access_code(u)
    \/ \E u \in CommandUsers : cancel_button(u)
    \/ \E u \in CommandUsers : add_category(u)
    \/ \E u \in CommandUsers : add_product(u)
    \/ \E u \in CommandUsers : delete_category(u)
    \/ \E u \in CommandUsers, c \in Keys(CATALOG) :
           state[u] = SELECTING_CATEGORY /\ select_category(u, c)
    \/ \E u \in CommandUsers : handle_product_name(u, <<"b">>)
    \/ \E u \in CommandUsers : handle_product_price(u, <<"b">>)
    \/ \E u \in CommandUsers : handle_product_description(u, <<"b">>)
    \/ \E u \in CommandUsers, c \in Keys(CATALOG) : edit_cat_name(u, c)
    \/ \E u \in CommandUsers, c \in Keys(CATALOG) : editcat(u, c)
    \/ \E u \in CommandUsers : \E id \in DOMAIN callback_store[u] :
           state[u] = SELECTING_PRODUCT_TO_EDIT /\ editp(u, id)
    \/ \E u \in CommandUsers, field \in EditFields :
           state[u] = EDITING_PRODUCT_FIELD /\ edit_field(u, field)

SpecCommands == InitCommands /\ [][NextCommands]_vars

----------------------------------------------------------------------------
(* Specification SpecCreate: categories are created by a user in two groups,   *)
(* a user in one group and a user in none                                      *)

InitCreateGroups ==
    { << [name |-> GroupV, members |-> {1, 3}], [name |-> GroupW, members |-> {1}] >> }

InitCreate == InitWith(InitCatalogs, InitCreateGroups, {0}, MaxCreateSteps)

NextCreate ==
    \/ \E u \in Users : admin_button(u)
    \/ \E u \in Users : add_category(u)
    \/ \E u \in Users, text \in Texts : handle_category_name(u, text)
    \/ \E u \in Users, g \in {GroupV, GroupW} :
           /\ out.kind = "select_group"
           /\ out.user = u
           /\ \E i \in DOMAIN out.choices : out.choices[i] = g
           /\ select_group_press(u, g, out.name)

SpecCreate == InitCreate /\ [][NextCreate]_vars

----------------------------------------------------------------------------
(* Specification SpecDelete: the administrators delete products through the    *)
(* picker, the listing of a category, the confirmation and the deletion        *)

InitDeleteCatalogs ==
    { << [key |-> <<"a">>, products |-> <<Product(<<"a", "b">>), Product(<<"a">>)>>] >>,
      << [key |-> <<"a">>, products |-> <<Product(<<"a">>), Product(<<"b">>)>>],
         [key |-> <<"V", "_", "a">>, products |-> <<Product(<<"V", "_", "b">>)>>] >> }

InitDelete == InitWith(InitDeleteCatalogs, InitGroups, {0}, MaxDeleteSteps)

NextDelete ==
    \/ \E u \in ADMIN_IDS : admin_button(u)
    \/ \E u \in ADMIN_IDS : delete_product(u)
    \/ \E u \in ADMIN_IDS, c \in Keys(CATALOG) :
           /\ out.kind = "delete_product_picker"
           /\ out.user = u
           /\ \E i \in DOMAIN out.buttons : out.buttons[i] = c
           /\ delete_product_category(u, c)
    \/ \E u \in ADMIN_IDS :
           /\ out.kind = "delete_product_listing"
           /\ out.user = u
           /\ \E i \in DOMAIN out.buttons : confirm_delete_product(u, out.key, out.buttons[i])
    \/ \E u \in ADMIN_IDS :
           /\ out.kind = "confirm_delete_product"
           /\ out.user = u
           /\ really_delete_product(u, out.key, out.product)

SpecDelete == InitDelete /\ [][NextDelete]_vars

----------------------------------------------------------------------------
(* Specification SpecConflict: the administrators type names that may be       *)
(* taken, for a new category, for a renamed category and for a new product     *)

InitConflict == InitWith(InitCatalogs, InitGroups, {0}, MaxConflictSteps)

NextConflict ==
    \/ \E u \in ADMIN_IDS : admin_button(u)
    \/ \E u \in ADMIN_IDS : add_category(u)
    \/ \E u \in ADMIN_IDS, text \in Texts : handle_category_name(u, text)
    \/ \E u \in ADMIN_IDS, c \in Keys(CATALOG) :
           EditCategoryLists(groups, u, c) /\ edit_cat_name(u, c)
    \/ \E u \in ADMIN_IDS, text \in Texts : handle_new_category_name(u, text)
    \/ \E u \in ADMIN_IDS, c \in Keys(CATALOG) :
           state[u] = CHOOSING /\ select_category(u, c)
    \/ \E u \in ADMIN_IDS, text \in Texts : handle_product_name(u, text)

SpecConflict == InitConflict /\ [][NextConflict]_vars

----------------------------------------------------------------------------
(* Specification SpecStats: administrator 2 views categories, deletes and      *)
(* recreates the category a, deletes products and opens the statistics         *)

StatsUsers == {2}

InitStatsCatalogs ==
    { << [key |-> <<"a">>, products |-> <<Product(<<"a">>), Product(<<"b">>)>>],
         [key |-> <<"b">>, products |-> <<Product(<<"a">>)>>] >> }

InitStatsRun == InitWith(InitStatsCatalogs, InitGroups, {0}, MaxStatsSteps)

NextStats ==
    \/ \E u \in StatsUsers, c \in Keys(CATALOG) : view(u, c)
    \/ \E u \in StatsUsers : \E id \in DOMAIN callback_store[u] : product(u, id)
    \/ \E u \in StatsUsers : show_stats(u)
    \/ \E u \in StatsUsers, c \in Keys(CATALOG) : confirm_delete_category(u, c)
    \/ \E u \in StatsUsers, c \in Keys(CATALOG) :
           \E q \in ProductNames(Products(CATALOG, c)) : really_delete_product(u, c, q)
    \/ \E u \in StatsUsers : add_category(u)
    \/ \E u \in StatsUsers : handle_category_name(u, <<"a">>)

SpecStats == InitStatsRun /\ [][NextStats]_vars

----------------------------------------------------------------------------
(* Specification SpecSoldOut: the sold-out prompt, its two buttons, and the    *)
(* deletions that may come between the prompt and the press                    *)

InitSoldOut == InitWith(InitCatalogs, InitGroups, {0}, MaxSoldOutSteps)

NextSoldOut ==
    \/ \E u \in Users : admin_button(u)
    \/ \E u \in Users, c \in Keys(CATALOG) : add_soldout(u, c)
    \/ \E u \in Users : \E c \in Keys(CATALOG) \cup soldout_prompts[u] : edit_cat(u, c)
    \/ \E u \in Users : \E c \in soldout_prompts[u] : confirm_soldout(u, c)
    \/ \E u \in ADMIN_IDS, c \in Keys(CATALOG) : confirm_delete_category(u, c)
    \/ \E u \in ADMIN_IDS, c \in Keys(CATALOG) :
           \E q \in ProductNames(Products(CATALOG, c)) : really_delete_product(u, c, q)

SpecSoldOut == InitSoldOut /\ [][NextSoldOut]_vars

----------------------------------------------------------------------------
(* Specification SpecMedia: administrator 2 runs add-product flows one after   *)
(* the other, attaching media, cancelling or finishing                         *)

MediaUsers == {2}

InitMediaCatalogs == { << [key |-> <<"a">>, products |-> <<Product(<<"a">>)>>] >> }

InitMedia == InitWith(InitMediaCatalogs, InitGroups, {0}, MaxMediaSteps)

NextMedia ==
    \/ \E u \in MediaUsers : cancel_button(u)
    \/ \E u \in MediaUsers, c \in Keys(CATALOG) : state[u] = CHOOSING /\ select_category(u, c)
    \/ \E u \in MediaUsers : handle_product_name(u, <<"b">>)
    \/ \E u \in MediaUsers : handle_product_price(u, <<"2">>)
    \/ \E u \in MediaUsers : handle_product_description(u, <<"f">>)
    \/ \E u \in MediaUsers, m \in MediaInputs : handle_product_media(u, m)
    \/ \E u \in MediaUsers : finish_product_media(u)

SpecMedia == InitMedia /\ [][NextMedia]_vars

----------------------------------------------------------------------------
(* Specification SpecShapes: administrator 2 walks the add-category and the    *)
(* add-product flow and sends messages and presses the states do not take      *)

ShapeUsers == {2}

InitShapes == InitWith(InitCatalogs, InitGroups, {0}, MaxShapeSteps)

NextShapes ==
    \/ \E u \in ShapeUsers : cancel_button(u)
    \/ \E u \in ShapeUsers : add_category(u)
    \/ \E u \in ShapeUsers, c \in Keys(CATALOG) : state[u] = CHOOSING /\ select_category(u, c)
    \/ \E u \in ShapeUsers : handle_product_name(u, <<"b">>)
    \/ \E u \in ShapeUsers : handle_product_price(u, <<"2">>)
    \/ \E u \in ShapeUsers : handle_product_description(u, <<"f">>)
    \/ \E u \in ShapeUsers, shape \in MessageShapes : unmatched_message(u, shape)
    \/ \E u \in ShapeUsers : unknown_button(u)

SpecShapes == InitShapes /\ [][NextShapes]_vars

----------------------------------------------------------------------------
(* Specification SpecRace: administrator 2 adds a product or sets a category   *)
(* sold out while administrator 1 deletes categories                           *)

InitRaceCatalogs ==
    { << [key |-> <<"a">>, products |-> <<Product(<<"a">>)>>],
         [key |-> <<"b">>, products |-> <<>>] >> }

InitRace == InitWith(InitRaceCatalogs, InitGroups, {0}, MaxRaceSteps)

NextRace ==
    \/ \E c \in Keys(CATALOG) : state[2] = CHOOSING /\ select_category(2, c)
    \/ handle_product_name(2, <<"b">>)
    \/ handle_product_price(2, <<"2">>)
    \/ handle_product_description(2, <<"f">>)
    \/ state[2] = WAITING_PRODUCT_MEDIA /\ skip_media(2)
    \/ finish_product_media(2)
    \/ \E c \in Keys(CATALOG) : state[2] = CHOOSING /\ add_soldout(2, c)
    \/ \E c \in soldout_prompts[2] : confirm_soldout(2, c)
    \/ \E c \in Keys(CATALOG) : confirm_delete_category(1, c)

SpecRace == InitRace /\ [][NextRace]_vars

----------------------------------------------------------------------------
(* Specification SpecStale: administrator 2 opens a product for editing,       *)
(* cancels, and runs the add-product flow                                      *)

InitStale == InitWith(InitMediaCatalogs, InitGroups, {0}, MaxStaleSteps)

NextStale ==
    \/ cancel_button(2)
    \/ \E c \in Keys(CATALOG) : state[2] = CHOOSING /\ editcat(2, c)
    \/ \E id \in DOMAIN callback_store[2] :
           state[2] = SELECTING_PRODUCT_TO_EDIT /\ editp(2, id)
    \/ \E c \in Keys(CATALOG) : state[2] = CHOOSING /\ select_category(2, c)
    \/ handle_product_name(2, <<"b">>)
    \/ handle_product_price(2, <<"2">>)
    \/ handle_product_description(2, <<"f">>)
    \/ \E m \in MediaInputs : handle_product_media(2, m)
    \/ finish_product_media(2)

SpecStale == InitStale /\ [][NextStale]_vars

----------------------------------------------------------------------------
(* Specification SpecOrder: administrator 2 runs add-product flows and presses *)
(* the buttons of media prompts, the one on screen or one of an earlier flow   *)

InitOrder == InitWith(InitRaceCatalogs, InitGroups, {0}, MaxOrderSteps)

\* The media prompt of a flow that was left with /admin stays in the chat (admin
\* deletes the menu, banner, category, product and instruction messages only):
\* its skip_media button can be pressed in every state that takes buttons.
NextOrder ==
    \/ cancel_button(2)
    \/ \E c \in Keys(CATALOG) : select_category(2, c)
    \/ handle_product_name(2, <<"b">>)
    \/ handle_product_price(2, <<"2">>)
    \/ handle_product_description(2, <<"f">>)
    \/ skip_media(2)
    \/ finish_product_media(2)

SpecOrder == InitOrder /\ [][NextOrder]_vars

----------------------------------------------------------------------------
(* Specification SpecCancel: administrators start add-product flows and cancel *)
(* them at the name, price, description or media step; nothing is committed    *)

InitCancel == InitWith(InitCatalogs, InitGroups, {0}, MaxCancelSteps)

NextCancel ==
    \/ \E u \in ADMIN_IDS, c \in Keys(CATALOG) : state[u] = CHOOSING /\ select_category(u, c)
    \/ \E u \in ADMIN_IDS, text \in {<<"a">>, <<"b">>} : handle_product_name(u, text)
    \/ \E u \in ADMIN_IDS : handle_product_price(u, <<"2">>)
    \/ \E u \in ADMIN_IDS : handle_product_description(u, <<"f">>)
    \/ \E u \in ADMIN_IDS, m \in MediaInputs : handle_product_media(u, m)
    \/ \E u \in ADMIN_IDS : state[u] # CHOOSING /\ cancel_button(u)

SpecCancel == InitCancel /\ [][NextCancel]_vars

----------------------------------------------------------------------------
(* Specification SpecListing: the administrators open the edit listing and the *)
(* delete listing of the categories                                            *)

InitListing == InitWith(InitCatalogs \cup InitEditCatalogs, InitGroups, {0}, MaxListingSteps)

NextListing ==
    \/ \E u \in ADMIN_IDS : cancel_button(u)
    \/ \E u \in ADMIN_IDS, c \in Keys(CATALOG) : editcat(u, c)
    \/ \E u \in ADMIN_IDS : delete_product(u)
    \/ \E u \in ADMIN_IDS, c \in Keys(CATALOG) : delete_product_category(u, c)

SpecListing == InitListing /\ [][NextListing]_vars

----------------------------------------------------------------------------
(* Specification SpecNav: user 3 lists a category, opens its products and      *)
(* presses the prev_ and next_ buttons of the product messages in the chat     *)

\* n media as handle_product_media stores them
MediaList(n) ==
    [k \in 1..n |-> [media_id |-> "m1", media_type |-> "photo", order_index |-> k]]

WithMedia(name, n) ==
    [name |-> name, price |-> <<"2">>, description |-> <<"f">>, media |-> MediaList(n)]

InitNavCatalogs ==
    { << [key |-> <<"a">>,
          products |-> <<WithMedia(<<"a">>, 4), WithMedia(<<"b">>, 2)>>] >> }

InitNav == InitWith(InitNavCatalogs, InitGroups, {0}, MaxNavSteps)

NextNav ==
    \/ \E c \in Keys(CATALOG) : view(3, c)
    \/ /\ out.kind = "product_listing"
       /\ \E i \in DOMAIN out.buttons : product(3, NavKey(out.buttons[i].id))
    \/ \E id \in nav_buttons[3], direction \in {"next", "prev"} :
           navigate(3, direction, id)

SpecNav == InitNav /\ [][NextNav]_vars

----------------------------------------------------------------------------
(* C1: every category's product list is empty, or free of the sold-out        *)
(* marker, or exactly the one sentinel product: the sentinel never coexists    *)
(* with another product.                                                       *)
C1_SentinelIsAlone ==
    \A i \in DOMAIN CATALOG :
        LET ps == CATALOG[i].products
        IN  \/ ps = <<>>
            \/ SOLD_OUT_NAME \notin ProductNames(ps)
            \/ IsSoldOutList(ps)

(* C2: no add-product, edit-product-field or delete-product step turns a       *)
(* category that was not sold out into one is_category_sold_out reports as     *)
(* sold out; only confirm_soldout_ does.                                       *)
C2_OnlySetSoldOutSellsOut ==
    [][ out'.kind \in {"ask_product_price", "product_exists", "product_committed",
                       "media_replaced", "edit_done", "really_delete"}
        => \A c \in Keys(CATALOG') :
               is_category_sold_out(CATALOG', c) => is_category_sold_out(CATALOG, c) ]_vars

(* C3: when skip_media or finish_media commits a new product p to a category   *)
(* that holds the sentinel at that moment, the category's list becomes [p].    *)
C3_CommitDiscardsSentinel ==
    [][ (out'.kind = "product_committed" /\ is_category_sold_out(CATALOG, out'.key))
        => /\ Len(Products(CATALOG', out'.key)) = 1
           /\ Products(CATALOG', out'.key)[1].name = out'.name ]_vars

(* C4: within one category no two products have the same name, in every       *)
(* reachable state.                                                            *)
C4_UniqueProductNames ==
    \A i \in DOMAIN CATALOG :
        LET ps == CATALOG[i].products
        IN  \A j, k \in DOMAIN ps : j # k => ps[j].name # ps[k].name

(* C5: a completed rename keeps the owner and the products: a group-scoped     *)
(* old key g_x becomes g_ + n, a public old key becomes a key that is not      *)
(* group-scoped, the products under the new key are those that were under the  *)
(* old key, and the old key is gone.                                           *)
C5_RenameKeepsOwnerAndProducts ==
    [][ out'.kind = "category_renamed"
        => LET old == out'.old
               n == out'.typed
               new == out'.new
           IN  /\ HasGroupPrefix(groups, old)
                      => new = Prefix(groups[OwnerIndex(groups, old)].name) \o n
               /\ ~HasGroupPrefix(groups, old) => ~HasGroupPrefix(groups, new)
               /\ Has(CATALOG', new)
               /\ Products(CATALOG', new) = Products(CATALOG, old)
               /\ ~Has(CATALOG', old) ]_vars

(* C6: an event sent by a user who is not in ADMIN_IDS changes neither the set *)
(* of categories nor any product list.                                         *)
C6_OnlyAdminsMutate ==
    [][ ("user" \in DOMAIN out' /\ out'.user \notin ADMIN_IDS) => CATALOG' = CATALOG ]_vars

\* the three answers of the confirm_delete_category_ branch
DeleteAnswers == {"category_deleted", "delete_forbidden", "category_gone"}

\* key has a resolvable group prefix and u is not a member of that group
ForeignKey(gs, u, key) ==
    \E i \in DOMAIN gs :
        /\ StartsWith(key, Prefix(gs[i].name))
        /\ \A j \in 1..(i - 1) : ~StartsWith(key, Prefix(gs[j].name))
        /\ u \notin gs[i].members

\* Forbidden and NotFound leave the catalog as it is; Ok removes the entry key
\* and nothing else
DeleteEffect ==
    /\ out'.kind \in {"delete_forbidden", "category_gone"} => CATALOG' = CATALOG
    /\ out'.kind = "category_gone" => ~Has(CATALOG, out'.key)
    /\ out'.kind = "category_deleted"
           => /\ Has(CATALOG, out'.key)
              /\ Keys(CATALOG') = Keys(CATALOG) \ {out'.key}
              /\ \A k \in Keys(CATALOG') : Products(CATALOG', k) = Products(CATALOG, k)

(* C7 as stated: deleting a category is Forbidden if and only if the key is    *)
(* group-scoped and the requester is not a member of the owning group;         *)
(* Forbidden and NotFound leave the catalog unchanged and Ok removes exactly   *)
(* the entry key.                                                              *)
C7_ForbiddenIffForeign ==
    [][ out'.kind \in DeleteAnswers
        => /\ out'.kind = "delete_forbidden" <=> ForeignKey(groups, out'.user, out'.key)
           /\ DeleteEffect ]_vars

(* C7 amended: deleting a category is Forbidden if and only if the key is in   *)
(* the catalog, is group-scoped and the requester is not a member of the       *)
(* owning group (a key that is not in the catalog is NotFound whoever asks);   *)
(* Forbidden and NotFound leave the catalog unchanged and Ok removes exactly   *)
(* the entry key.                                                              *)
C7_ForbiddenIffPresentAndForeign ==
    [][ out'.kind \in DeleteAnswers
        => /\ out'.kind = "delete_forbidden"
                  <=> (Has(CATALOG, out'.key) /\ ForeignKey(groups, out'.user, out'.key))
           /\ DeleteEffect ]_vars

\* a non-member has been refused the deletion of a group's category, which is
\* still in the catalog
C7_Witness ==
    /\ out.kind = "delete_forbidden"
    /\ Has(CATALOG, out.key)
    /\ ForeignKey(groups, out.user, out.key)

\* u is a member of the group whose prefix key carries
MemberOfOwner(gs, u, key) ==
    \E i \in DOMAIN gs :
        /\ StartsWith(key, Prefix(gs[i].name))
        /\ \A j \in 1..(i - 1) : ~StartsWith(key, Prefix(gs[j].name))
        /\ u \in gs[i].members

\* key without the leading prefix of its owning group; key itself when public
WithoutLeadingPrefix(gs, key) ==
    IF HasGroupPrefix(gs, key)
    THEN SubSeq(key, Len(gs[OwnerIndex(gs, key)].name) + 2, Len(key))
    ELSE key

(* C8: the category listing of show_categories holds a category if and only if *)
(* it has no resolvable group prefix or its owning group contains the viewer;  *)
(* each listed category is displayed as its key without the owning group's     *)
(* leading prefix (the key itself when public) and is flagged sold out exactly *)
(* when its product list is the sentinel singleton.                            *)
C8_CategoryListing ==
    out.kind = "category_listing"
    => LET b == out.buttons
       IN  /\ \A c \in Keys(CATALOG) :
                  (\E i \in DOMAIN b : b[i].key = c)
                      <=> (~HasGroupPrefix(groups, c) \/ MemberOfOwner(groups, out.user, c))
           /\ \A i \in DOMAIN b :
                  /\ b[i].display_name = WithoutLeadingPrefix(groups, b[i].key)
                  /\ b[i].is_sold_out
                         <=> (/\ Len(Products(CATALOG, b[i].key)) = 1
                              /\ Products(CATALOG, b[i].key)[1].name = SOLD_OUT_NAME)

CategoryListed(gs, u, category) ==
    \E i \in DOMAIN CategoryButtons(gs, u, CATALOG) :
        CategoryButtons(gs, u, CATALOG)[i].key = category

\* the product listing of category for u under the memberships gs holds name
ProductListed(gs, u, category, name) ==
    /\ ViewAccess(gs, u, category)
    /\ \E i \in DOMAIN ViewProducts(gs, u, category, Products(CATALOG, category)) :
           ViewProducts(gs, u, category, Products(CATALOG, category))[i].name = name

\* the prefix of key resolves to group g
OwnedBy(gs, key, g) == HasGroupPrefix(gs, key) /\ gs[OwnerIndex(gs, key)].name = g

(* C10: when user u joins group g, every category and product hidden from u    *)
(* only because of a g_ prefix is in u's next listing, and every category and  *)
(* product u's listings held before the step are still in them.                *)
C10_Monotonic ==
    [][ out'.kind = "member_added"
        => LET u == out'.user
               g == out'.group
           IN  \A c \in Keys(CATALOG) :
                   /\ CategoryListed(groups, u, c) => CategoryListed(groups', u, c)
                   /\ OwnedBy(groups, c, g) => CategoryListed(groups', u, c)
                   /\ \A n \in ProductNames(Products(CATALOG, c)) :
                          /\ ProductListed(groups, u, c, n) => ProductListed(groups', u, c, n)
                          /\ (\/ OwnedBy(groups, c, g)
                              \/ ~HasGroupPrefix(groups, c) /\ OwnedBy(groups, n, g))
                                 => ProductListed(groups', u, c, n) ]_vars

\* a user has just joined the group that owns a category and a product of a
\* public category; both are in their listings now
C10_Witness ==
    /\ out.kind = "member_added"
    /\ \E c \in Keys(CATALOG) :
           OwnedBy(groups, c, out.group) /\ CategoryListed(groups, out.user, c)
    /\ \E c \in Keys(CATALOG) : \E n \in ProductNames(Products(CATALOG, c)) :
           /\ ~HasGroupPrefix(groups, c)
           /\ OwnedBy(groups, n, out.group)
           /\ ProductListed(groups, out.user, c, n)

----------------------------------------------------------------------------
(* C11: no screen lists a group-scoped category to a user outside the owning  *)
(* group, nor, in a public category, a group-scoped product to a user outside *)
(* the group it names. The screens are the category menu, the menu recreated  *)
(* by back_to_categories, the product list and the product list shown again.  *)
C11_NoForeignListing ==
    /\ out.kind \in {"category_listing", "category_listing_all"}
       => \A i \in DOMAIN out.buttons : ~ForeignKey(groups, out.user, out.buttons[i].key)
    /\ out.kind \in {"product_listing", "product_listing_again"}
       => /\ ~ForeignKey(groups, out.user, out.key)
          /\ ~HasGroupPrefix(groups, out.key)
             => \A i \in DOMAIN out.buttons :
                    ~ForeignKey(groups, out.user, out.buttons[i].name)

----------------------------------------------------------------------------
(* C12: a product added to a public category through the add-product flow     *)
(* without media keeps the name the administrator typed, whoever the          *)
(* administrator is: the name carried to the commit is the typed one, and the *)
(* committed product is in the product list of the category for every viewer, *)
(* displayed under that name.                                                 *)
C12_PublicProductKeepsName ==
    [][ /\ ( /\ out'.kind = "ask_product_price"
             /\ ~HasGroupPrefix(groups, out'.key)
             /\ ~HasGroupPrefix(groups, out'.typed) )
           => Get(user_data'[out'.user], "temp_product_name") = out'.typed
        /\ ( /\ out'.kind = "product_committed"
             /\ out'.via = "skip_media"
             /\ ~HasGroupPrefix(groups, out'.key)
             /\ ~HasGroupPrefix(groups, out'.name) )
           => \A v \in Users :
                  LET listing == ProductButtons(groups,
                                     ViewProducts(groups, v, out'.key,
                                                  Products(CATALOG', out'.key)))
                  IN  /\ ViewAccess(groups, v, out'.key)
                      /\ \E i \in DOMAIN listing :
                             /\ listing[i].name = out'.name
                             /\ listing[i].display_name = out'.name ]_vars

----------------------------------------------------------------------------
\* the keys of user_data that the multi-step flows write
ScratchKeys ==
    {"temp_product_category", "temp_product_name", "temp_product_price",
     "temp_product_description", "temp_product_media", "media_count",
     "editing_category", "editing_product", "editing_field", "category_to_edit"}

\* the start entry point of the conversation has just run
StartRan(o) == o.kind = "start" /\ o.via \in {"command", "cancel_access"}

(* C13: whatever the conversation state and the scratch of the user were, a   *)
(* run of the start entry point leaves a banned user with no conversation and *)
(* an empty user_data, authorized or not; a user who is not banned and not    *)
(* authorized in WAITING_FOR_ACCESS_CODE; every other user in CHOOSING.       *)
C13_StartRecomputes ==
    [][ StartRan(out')
        => LET u == out'.user
               authorized == ~access_code_enabled \/ u \in authorized_users
           IN  /\ u \in banned_users
                  => state'[u] = END /\ user_data'[u] = Empty /\ callback_store'[u] = Empty
               /\ (u \notin banned_users /\ ~authorized)
                  => state'[u] = WAITING_FOR_ACCESS_CODE
               /\ (u \notin banned_users /\ authorized)
                  => state'[u] = CHOOSING ]_vars

\* the start entry point has run for a banned user who is not authorized
\* either: the conversation has ended
C13_Witness ==
    /\ StartRan(out)
    /\ out.user \in banned_users
    /\ access_code_enabled /\ out.user \notin authorized_users
    /\ state[out.user] = END
    /\ out.returned = END

\* the screens that list categories or products
ListingKinds ==
    {"category_listing", "category_listing_all", "product_listing", "product_listing_again"}

(* C14: an event of a user who is not authorized (the code gate is on and the  *)
(* user has redeemed no code) neither renders a listing of categories or      *)
(* products for that user nor brings the user into CHOOSING.                  *)
C14_GatedCatalog ==
    [][ ( /\ out'.kind \notin {"none", "banned", "unbanned"}
          /\ ~is_authorized(access_code_enabled', authorized_users', out'.user) )
        => /\ out'.kind \notin ListingKinds
           /\ state[out'.user] # CHOOSING => state'[out'.user] # CHOOSING ]_vars

(* C15: an event sent by a user who is banned renders no listing of           *)
(* categories or products for that user and leaves the catalog as it was.     *)
C15_BannedExcluded ==
    [][ ( /\ out'.kind \notin {"none", "banned", "unbanned"}
          /\ out'.user \in banned_users )
        => /\ out'.kind \notin ListingKinds
           /\ CATALOG' = CATALOG ]_vars

(* C16: a text typed in WAITING_FOR_ACCESS_CODE by a user who is not banned   *)
(* has one of two outcomes: the code is reported invalid or expired, the user *)
(* stays in WAITING_FOR_ACCESS_CODE and is still not authorized; or the       *)
(* result is authorized, user_data is cleared and the user is in CHOOSING.    *)
C16_AccessCodeOutcomes ==
    [][ (out'.kind = "access_code" /\ out'.user \notin banned_users)
        => LET u == out'.user
           IN  \/ /\ out'.result \in {"invalid", "expired"}
                  /\ state'[u] = WAITING_FOR_ACCESS_CODE
                  /\ ~is_authorized(access_code_enabled', authorized_users', u)
                  /\ user_data'[u] = user_data[u]
               \/ /\ out'.result = "authorized"
                  /\ state'[u] = CHOOSING
                  /\ user_data'[u] = Empty
                  /\ callback_store'[u] = Empty ]_vars

\* a user who had redeemed no code typed the valid one while the gate was on
\* and is at the menu
C16_Witness ==
    /\ out.kind = "access_code"
    /\ out.result = "authorized"
    /\ access_code_enabled
    /\ out.user \in authorized_users
    /\ state[out.user] = CHOOSING

(* C17: a user who has redeemed a code stays authorized: no step removes the  *)
(* user from the authorized users; verification of any code for that user     *)
(* reports authorized and changes nothing; and every later run of the start   *)
(* entry point by that user, not banned, shows the home menu and leaves the   *)
(* user in CHOOSING, the code gate being on or off.                           *)
C17_AuthorizationPermanent ==
    [][ /\ authorized_users \subseteq authorized_users'
        /\ \A u \in authorized_users', code \in Codes :
               /\ verify_code(access_code_enabled', authorized_users', code, u)
                      = "authorized"
               /\ Redeem(access_code_enabled', authorized_users', code, u)
                      = authorized_users'
        /\ ( /\ StartRan(out')
             /\ out'.user \in authorized_users
             /\ out'.user \notin banned_users )
           => /\ state'[out'.user] = CHOOSING
              /\ out'.screen = "home_menu" ]_vars

\* a user who redeemed a code has run start again with the gate on and is at
\* the menu
C17_Witness ==
    /\ StartRan(out)
    /\ out.user \in authorized_users
    /\ out.user \notin banned_users
    /\ access_code_enabled
    /\ state[out.user] = CHOOSING

(* C18: in every state of the conversation, as long as events are handled, a  *)
(* /start of a user who is not banned is accepted and takes the user in that  *)
(* one event to a menu state: CHOOSING when the user is authorized,           *)
(* WAITING_FOR_ACCESS_CODE when not.                                          *)
C18_StartAlwaysAccepted ==
    \A u \in CommandUsers :
        (steps > 0 /\ u \notin banned_users)
        => ENABLED ( /\ start(u)
                     /\ state'[u] = IF is_authorized(access_code_enabled,
                                                      authorized_users, u)
                                     THEN CHOOSING
                                     ELSE WAITING_FOR_ACCESS_CODE )

\* /start was sent in the middle of the add-product flow, once the name had
\* been typed, and has brought the administrator back to the menu
C18_Witness ==
    /\ StartRan(out)
    /\ out.via = "command"
    /\ "temp_product_name" \in DOMAIN user_data[out.user]
    /\ state[out.user] = CHOOSING

\* a flow has been cancelled with a cancel button, or interrupted with /start
\* or /admin
InterruptRan(o) ==
    \/ StartRan(o) /\ o.via = "command"
    \/ o.kind = "admin_menu" /\ "via" \in DOMAIN o /\ o.via \in {"cancel", "command"}

(* C19: once a flow has been cancelled with a cancel button or interrupted    *)
(* with /start or /admin, user_data holds none of the scratch keys of the     *)
(* flows.                                                                     *)
C19_InterruptDiscardsScratch ==
    [][ InterruptRan(out') => DOMAIN user_data'[out'.user] \cap ScratchKeys = {} ]_vars

(* C20: when the add-product flow commits the product, through finish_media   *)
(* or through skip_media, user_data holds none of the scratch keys afterwards *)
(* and the administrator is in CHOOSING.                                      *)
C20_CommitClearsAndReturns ==
    [][ out'.kind = "product_committed"
        => /\ DOMAIN user_data'[out'.user] \cap ScratchKeys = {}
           /\ state'[out'.user] = CHOOSING ]_vars

(* C21: after a handler has raised an exception, the user of the event is in  *)
(* the stable menu state CHOOSING, not in a waiting state.                    *)
C21_FailureReturnsToMenu ==
    [][ ("raised" \in DOMAIN out' /\ out'.raised)
        => state'[out'.user] = CHOOSING ]_vars

(* C22: a start that is delivered a second time, right after the first, to    *)
(* the same user changes neither the conversation states, nor the catalog,    *)
(* nor the authorization data; and no run of start fails, the stored message  *)
(* ids being valid or not: the user is in the state start returned.           *)
C22_StartIdempotent ==
    [][ StartRan(out')
        => /\ ~out'.raised
           /\ state'[out'.user] = out'.returned
           /\ out'.duplicate
              => /\ state' = state
                 /\ CATALOG' = CATALOG /\ stats' = stats
                 /\ access' = access ]_vars

\* start has been handled twice in a row for a user whose stored message ids
\* were no longer valid the second time
C22_Witness ==
    /\ StartRan(out)
    /\ out.duplicate
    /\ out.stale
    /\ state[out.user] = out.returned

(* C23: the name typed for a new category creates the key name for a creator  *)
(* in no group and the key g_name for a creator in the one group g; for a     *)
(* creator in more than one group it creates nothing and offers the groups;   *)
(* the press of an offered group is dispatched to select_group_for_category   *)
(* and the category group_name is in the catalog afterwards.                  *)
C23_CreationForks ==
    [][ /\ (out'.kind \in {"category_created", "category_exists"} /\ "name" \in DOMAIN out')
           => LET user_groups == UserGroups(groups, out'.user)
              IN  /\ Len(user_groups) <= 1
                  /\ out'.key = IF Len(user_groups) = 1
                                THEN Prefix(user_groups[1]) \o out'.name
                                ELSE out'.name
                  /\ Has(CATALOG', out'.key)
        /\ out'.kind = "select_group"
           => /\ Len(UserGroups(groups, out'.user)) > 1
              /\ CATALOG' = CATALOG
        /\ out'.kind = "group_selected"
           => /\ out'.handler = "select_group_for_category"
              /\ Has(CATALOG', Prefix(out'.group) \o out'.name) ]_vars

\* the index of the first product of the list named name
FirstNamed(ps, name) ==
    CHOOSE i \in DOMAIN ps : ps[i].name = name /\ \A j \in 1..(i - 1) : ps[j].name # name

(* C24: after a product's name is edited, the stored name is the prefix of    *)
(* the group of the old name followed by the typed name when the old name     *)
(* has such a prefix, and a prefix of one of the editor's groups followed by  *)
(* the typed name when the old name has none and the editor is in a group.    *)
C24_RenameKeepsPrefix ==
    [][ (out'.kind = "edit_done" /\ out'.field = <<"name">>)
        => LET old == out'.product
               user_groups == UserGroups(groups, out'.user)
               stored == Products(CATALOG', out'.key)
                             [FirstNamed(Products(CATALOG, out'.key), old)].name
           IN  /\ HasGroupPrefix(groups, old)
                  => stored = Prefix(groups[OwnerIndex(groups, old)].name) \o out'.typed
               /\ (~HasGroupPrefix(groups, old) /\ user_groups # <<>>)
                  => \E i \in DOMAIN user_groups :
                         stored = Prefix(user_groups[i]) \o out'.typed ]_vars

\* the catalog without the products of category c named p
WithoutProduct(cat, c, p) ==
    IF Has(cat, c)
    THEN Put(cat, c, SelectSeq(Products(cat, c), LAMBDA q : q.name # p))
    ELSE cat

(* C25: when product p of category c was picked in the delete listing and the *)
(* deletion is confirmed, the catalog afterwards is the catalog before        *)
(* without p in c; and a pick in the listing always leads to the confirmation.*)
C25_DeletesSelectedProduct ==
    [][ /\ (out'.kind = "really_delete" /\ out.kind = "confirm_delete_product")
           => CATALOG' = WithoutProduct(CATALOG, out.selected_key, out.selected)
        /\ (out.kind = "delete_product_listing" /\ "selected" \in DOMAIN out')
           => out'.kind = "confirm_delete_product" ]_vars

(* C26: when the name typed for a new category, for a renamed category or for *)
(* a new product is taken, the catalog and the scratch data are unchanged and *)
(* the user stays in the waiting state they typed it in.                      *)
C26_ConflictKeepsWaiting ==
    [][ out'.kind \in {"category_exists", "product_exists"}
        => /\ CATALOG' = CATALOG
           /\ stats' = stats
           /\ user_data' = user_data
           /\ state' = state
           /\ state[out'.user] \in IF out'.kind = "product_exists"
                                   THEN {WAITING_PRODUCT_NAME}
                                   ELSE {WAITING_CATEGORY_NAME, WAITING_NEW_CATEGORY_NAME} ]_vars

C26_Witness ==
    /\ out.kind = "category_exists"
    /\ state[out.user] = WAITING_CATEGORY_NAME
    /\ Has(CATALOG, out.key)

(* C27: a user who is refused a category of a group they are not in leaves    *)
(* the catalog and every view counter of stats as they were.                  *)
C27_ForbiddenMutatesNothing ==
    [][ out'.kind = "no_access" => (CATALOG' = CATALOG /\ stats' = stats) ]_vars

\* the sum of the counters of d
RECURSIVE SumOf(_)
SumOf(d) ==
    IF DOMAIN d = {} THEN 0
    ELSE LET k == CHOOSE k \in DOMAIN d : TRUE
         IN  d[k] + SumOf([x \in (DOMAIN d) \ {k} |-> d[x]])

(* C28: after the statistics are pruned every category counter and every      *)
(* product counter names a category and a product of the catalog, the         *)
(* counters of what exists and total_views are as before; and the first view  *)
(* of a key with no counter gives it the value 1.                             *)
C28_PruneStats ==
    [][ /\ out'.kind = "stats"
           => /\ DOMAIN stats'.category_views \subseteq Keys(CATALOG')
              /\ DOMAIN stats'.product_views \subseteq Keys(CATALOG')
              /\ \A c \in DOMAIN stats'.product_views :
                     DOMAIN stats'.product_views[c]
                         \subseteq ProductNames(Products(CATALOG', c))
              /\ \A c \in DOMAIN stats.category_views :
                     Has(CATALOG, c) => /\ c \in DOMAIN stats'.category_views
                                        /\ stats'.category_views[c] = stats.category_views[c]
              /\ \A c \in DOMAIN stats.product_views : \A q \in DOMAIN stats.product_views[c] :
                     (Has(CATALOG, c) /\ q \in ProductNames(Products(CATALOG, c)))
                     => /\ c \in DOMAIN stats'.product_views
                        /\ q \in DOMAIN stats'.product_views[c]
                        /\ stats'.product_views[c][q] = stats.product_views[c][q]
              /\ stats'.total_views = stats.total_views
        /\ (out'.kind = "product_listing" /\ out'.key \notin DOMAIN stats.category_views)
           => stats'.category_views[out'.key] = 1 ]_vars

\* the category a has been viewed once since it was recreated: its counter is
\* 1 while total_views counts more views than the category counters hold, and
\* b, which cannot be recreated here, was never deleted
C28_Witness ==
    /\ out.kind = "product_listing"
    /\ out.key = <<"a">>
    /\ stats.category_views[<<"a">>] = 1
    /\ Has(CATALOG, <<"b">>)
    /\ stats.total_views > SumOf(stats.category_views)

(* C29: a category view adds 1 to the counter of the category and to          *)
(* total_views and changes no product counter; a product view adds 1 to the   *)
(* counter of the product and to total_views and changes no other counter.    *)
C29_ViewCountsOnlyViewed ==
    [][ /\ out'.kind = "product_listing"
           => stats' = [stats EXCEPT !.category_views = Bump(@, out'.key),
                                    !.total_views = @ + 1]
        /\ out'.kind = "product_shown"
           => /\ stats'.category_views = stats.category_views
              /\ stats'.total_views = stats.total_views + 1
              /\ DOMAIN stats'.product_views = DOMAIN stats.product_views \cup {out'.key}
              /\ \A c \in DOMAIN stats.product_views :
                     c # out'.key => stats'.product_views[c] = stats.product_views[c]
              /\ stats'.product_views[out'.key]
                     = Bump(IF out'.key \in DOMAIN stats.product_views
                            THEN stats.product_views[out'.key] ELSE <<>>, out'.product) ]_vars

C31_OrderIndexSequential ==
    [][ (out'.kind \in {"product_committed", "media_replaced"} /\ out'.via = "finish_media")
        => /\ \A k \in DOMAIN out'.media : out'.media[k].order_index = k
           /\ out'.kind = "product_committed"
              => LET ps == Products(CATALOG', out'.key)
                 IN  ps[Len(ps)].media = out'.media ]_vars

(* C32: an event of a shape the current state does not take has the current   *)
(* menu rendered again and leaves the conversation state, the scratch data    *)
(* and the catalog unchanged.                                                 *)
C32_UnmatchedRerenders ==
    [][ out'.kind = "unmatched"
        => /\ out'.rendered = "menu"
           /\ state' = state
           /\ user_data' = user_data
           /\ CATALOG' = CATALOG ]_vars

(* C33: the set of category keys changes only when a category is created,     *)
(* deleted or renamed; a commit of finish_media or skip_media and a confirm   *)
(* of sold out leave the set of keys as it was.                               *)
C33_KeysChangeOnlyByCategoryOps ==
    [][ Keys(CATALOG') # Keys(CATALOG)
        => out'.kind \in {"category_created", "category_deleted", "category_renamed"} ]_vars

(* C34: when finish_media ends an add-product flow, the category holds a      *)
(* product with the name of the flow and every product that existed before    *)
(* is as it was, whatever the administrator did in earlier flows.             *)
C34_FinishCreatesProduct ==
    [][ ("via" \in DOMAIN out' /\ out'.via = "finish_media")
        => /\ out'.name \in ProductNames(Products(CATALOG', out'.key))
           /\ \A c \in Keys(CATALOG) :
                  /\ Has(CATALOG', c)
                  /\ \A i \in DOMAIN Products(CATALOG, c) :
                         /\ i \in DOMAIN Products(CATALOG', c)
                         /\ Products(CATALOG', c)[i] = Products(CATALOG, c)[i] ]_vars

(* C35: every product the add-product flow stores has a name, a price and a   *)
(* description, none of them null, also when skip_media or finish_media is    *)
(* pressed out of order or on the prompt of an earlier flow.                  *)
C35_CommittedProductComplete ==
    [][ out'.kind = "product_committed"
        => LET ps == Products(CATALOG', out'.key)
               stored == ps[Len(ps)]
           IN  /\ stored.name # None
               /\ stored.price # None
               /\ stored.description # None ]_vars

(* C36: when the button that ends an add-product flow (finish_media or        *)
(* skip_media) is delivered a second time right after the delivery that       *)
(* stored the product, the second delivery leaves the whole catalog as it is. *)
C36_SecondDelivery ==
    /\ out.kind = "product_committed"
    /\ \/ out.via = "finish_media" /\ finish_product_media(out.user)
       \/ out.via = "skip_media" /\ skip_media(out.user)

C36_DuplicateCommitIdempotent == [][ C36_SecondDelivery => CATALOG' = CATALOG ]_vars

\* finish_media has been delivered again after it stored a product
C36_Witness ==
    /\ out = [kind |-> "admin_menu", user |-> 2]
    /\ CATALOG \notin InitRaceCatalogs

(* C37: when an add-product flow has been cancelled at the name, price,       *)
(* description or media step, the catalog is the one the flow started from;   *)
(* a category that was sold out is still sold out.                            *)
C37_CancelLeavesCatalog ==
    ("via" \in DOMAIN out /\ out.via = "cancel") => CATALOG \in InitCatalogs

(* C38: when an administrator presses a button of the edit listing, the       *)
(* product opened for editing, the one handle_new_value will write, is the    *)
(* product the button is labelled with, whatever ids the buttons carry.       *)
C38_EditOpensLabelledProduct ==
    [][ out.kind = "edit_listing"
        => \A i \in DOMAIN out.buttons :
               (state[out.user] = SELECTING_PRODUCT_TO_EDIT
                   /\ editp(out.user, out.buttons[i].id))
               => /\ out'.kind = "edit_fields"
                  /\ Get(user_data'[out.user], "editing_category") = out.key
                  /\ Get(user_data'[out.user], "editing_product") = out.buttons[i].name ]_vars

(* C39: for a category the delete picker lists to an administrator, the       *)
(* delete listing offers the products the edit listing offers, in the same    *)
(* order; a member of a group is offered every product of a category of the   *)
(* group.                                                                     *)
C39_DeleteListingMatchesEdit ==
    [][ ( /\ out'.kind = "delete_product_listing"
          /\ Has(CATALOG, out'.key)
          /\ DeleteProductLists(groups, out'.user, CATALOG, out'.key) )
        => LET edit == EditButtons(groups, out'.user, out'.key,
                                   Products(CATALOG, out'.key))
           IN  out'.buttons = [i \in DOMAIN edit |-> edit[i].name] ]_vars

(* C40: after a press on a prev_ or next_ button, of the product opened last  *)
(* or of another product message, the stored current_media_index is an index  *)
(* of the media of the product shown; next from the last media shows the      *)
(* first, prev from the first shows the last, and prev right after next on    *)
(* the same product shows the media shown before.                             *)
C40_MediaNavigationInRange ==
    [][ out'.kind \in {"media_shown", "media_exception"}
        => /\ out'.kind = "media_shown"
           /\ user_data'[out'.user]["current_media_index"] \in 0..(out'.total - 1)
           /\ (out'.direction = "next" /\ out'.from = out'.total - 1) => out'.index = 0
           /\ (out'.direction = "prev" /\ out'.from = 0) => out'.index = out'.total - 1
           /\ ( /\ out.kind = "media_shown" /\ out.direction = "next"
                /\ out'.direction = "prev" /\ out'.product = out.product )
              => out'.index = out.from ]_vars

=============================================================================
